---- MODULE Spec2Model ----
(***************************************************************************)
(* A model of moonlight: the sharded key/value map with per-key deadlines, *)
(* the command engine, the append-only log (AOF), the point-in-time        *)
(* snapshot (RDB) and the expiration reaper.                               *)
(*                                                                         *)
(* Byte strings ([]byte, string) are sequences of byte values.  Time is    *)
(* the value of time.Now().UnixNano(); the units time.Millisecond and      *)
(* time.Second are scaled down so that a small clock covers them.          *)
(***************************************************************************)
EXTENDS Integers, Sequences, FiniteSets, TLC

(***************************************************************************)
(* Bounds of the model.                                                    *)
(***************************************************************************)
MaxTime == 2            \* the clock runs over 0..MaxTime
MaxCmds == 3            \* frames the clients send in one run
NanosPerMilli == 1      \* time.Millisecond, scaled
MillisPerSecond == 2    \* time.Second / time.Millisecond, scaled
MaxShards == 130        \* the shard counts main is started with are 0..MaxShards
MantissaBits == 3       \* the bits of a float64 significand, scaled
MaxInt64 == 15          \* math.MaxInt64, scaled: int64 is -(MaxInt64 + 1)..MaxInt64

Millisecond == NanosPerMilli
Second == MillisPerSecond * Millisecond

(***************************************************************************)
(* Byte strings the program uses.                                          *)
(***************************************************************************)
\* a command name in lower case, and a name that is not registered
bset == <<115, 101, 116>>
bFOO == <<70, 79, 79>>
bGET == <<71, 69, 84>>
bSET == <<83, 69, 84>>
bDEL == <<68, 69, 76>>
bPING == <<80, 73, 78, 71>>
bCOMMAND == <<67, 79, 77, 77, 65, 78, 68>>
bTTL == <<84, 84, 76>>
bPTTL == <<80, 84, 84, 76>>
bPERSIST == <<80, 69, 82, 83, 73, 83, 84>>
bSAVE == <<83, 65, 86, 69>>
bBGSAVE == <<66, 71, 83, 65, 86, 69>>
bNX == <<78, 88>>
bXX == <<88, 88>>
bKEEPTTL == <<75, 69, 69, 80, 84, 84, 76>>
bEX == <<69, 88>>
bPX == <<80, 88>>
bEXAT == <<69, 88, 65, 84>>
bPXAT == <<80, 88, 65, 84>>
bCOUNT == <<67, 79, 85, 78, 84>>
bDOCS == <<68, 79, 67, 83>>
bOK == <<79, 75>>
bPONG == <<80, 79, 78, 71>>
\* "Background saving started"
bBgStarted == <<66, 97, 99, 107, 103, 114, 111, 117, 110, 100, 32, 115, 97, 118, 105, 110, 103, 32, 115, 116, 97, 114, 116, 101, 100>>
\* the text of an error the operating system returns: "input/output error"
bIOError == <<105, 110, 112, 117, 116, 47, 111, 117, 116, 112, 117, 116, 32, 101, 114, 114, 111, 114>>
\* "RDB disabled"
bRDBDisabled == <<82, 68, 66, 32, 100, 105, 115, 97, 98, 108, 101, 100>>
\* "wrong command: "
bWrongCommand == <<119, 114, 111, 110, 103, 32, 99, 111, 109, 109, 97, 110, 100, 58, 32>>
\* "wrong number of arguments for "
bWrongArgsPre == <<119, 114, 111, 110, 103, 32, 110, 117, 109, 98, 101, 114, 32, 111, 102, 32, 97, 114, 103, 117, 109, 101, 110, 116, 115, 32, 102, 111, 114, 32>>
\* " command"
bWrongArgsPost == <<32, 99, 111, 109, 109, 97, 110, 100>>
\* "NX cannot use with XX"
bNXwithXX == <<78, 88, 32, 99, 97, 110, 110, 111, 116, 32, 117, 115, 101, 32, 119, 105, 116, 104, 32, 88, 88>>
\* "XX cannot use with NX"
bXXwithNX == <<88, 88, 32, 99, 97, 110, 110, 111, 116, 32, 117, 115, 101, 32, 119, 105, 116, 104, 32, 78, 88>>
\* "TTL already specified"
bTTLTwice == <<84, 84, 76, 32, 97, 108, 114, 101, 97, 100, 121, 32, 115, 112, 101, 99, 105, 102, 105, 101, 100>>
\* "syntax error"
bSyntaxError == <<115, 121, 110, 116, 97, 120, 32, 101, 114, 114, 111, 114>>
\* "value TTL is not integer or out of range"
bNotInteger == <<118, 97, 108, 117, 101, 32, 84, 84, 76, 32, 105, 115, 32, 110, 111, 116, 32, 105, 110, 116, 101, 103, 101, 114, 32, 111, 114, 32, 111, 117, 116, 32, 111, 102, 32, 114, 97, 110, 103, 101>>
\* "syntax error with command: "
bSyntaxErrorWith == <<115, 121, 110, 116, 97, 120, 32, 101, 114, 114, 111, 114, 32, 119, 105, 116, 104, 32, 99, 111, 109, 109, 97, 110, 100, 58, 32>>
\* "WRONGTYPE Get support only String type"
bWrongType == <<87, 82, 79, 78, 71, 84, 89, 80, 69, 32, 71, 101, 116, 32, 115, 117, 112, 112, 111, 114, 116, 32, 111, 110, 108, 121, 32, 83, 116, 114, 105, 110, 103, 32, 116, 121, 112, 101>>
\* "MOONRES1"
bMagic == <<77, 79, 79, 78, 82, 69, 83, 49>>
bCRLF == <<13, 10>>
\* "$-1\r\n"
bNullBulk == <<36, 45, 49, 13, 10>>
\* "*-1\r\n"
bNullArray == <<42, 45, 49, 13, 10>>

(***************************************************************************)
(* Go library functions on byte strings.                                   *)
(***************************************************************************)
\* strings.ToUpper on ASCII
ToUpper(b) == [i \in 1..Len(b) |-> IF b[i] \in 97..122 THEN b[i] - 32 ELSE b[i]]

IsDigits(b) == Len(b) > 0 /\ \A i \in 1..Len(b) : b[i] \in 48..57

RECURSIVE DigitsValue(_, _)
DigitsValue(b, acc) ==
    IF Len(b) = 0 THEN acc ELSE DigitsValue(Tail(b), 10 * acc + (Head(b) - 48))

\* int64 arithmetic: the result of +, - and * wraps around
Wrap(x) == ((x + MaxInt64 + 1) % (2 * (MaxInt64 + 1))) - (MaxInt64 + 1)

\* time.Time.Sub, which time.Until calls: the result is the nearest Duration
Saturate(x) ==
    IF x > MaxInt64 THEN MaxInt64 ELSE IF x < 0 - MaxInt64 - 1 THEN 0 - MaxInt64 - 1 ELSE x

\* strconv.ParseInt(s, 10, 64): an optional sign and at least one digit, the
\* value in the range of int64.  An error is ErrSyntax (syntax) or ErrRange,
\* which comes with the nearest value of int64
ParseInt(b) ==
    IF Len(b) = 0 THEN [ok |-> FALSE, v |-> 0, syntax |-> TRUE]
    ELSE LET signed == Head(b) \in {43, 45}
             digits == IF signed THEN Tail(b) ELSE b
             v == IF Head(b) = 45 THEN 0 - DigitsValue(digits, 0)
                  ELSE DigitsValue(digits, 0)
         IN IF ~IsDigits(digits) THEN [ok |-> FALSE, v |-> 0, syntax |-> TRUE]
            ELSE IF v > MaxInt64 \/ v < 0 - MaxInt64 - 1
            THEN [ok |-> FALSE, v |-> Saturate(v), syntax |-> FALSE]
            ELSE [ok |-> TRUE, v |-> v, syntax |-> FALSE]

RECURSIVE NatDigits(_)
NatDigits(n) ==
    IF n < 10 THEN <<48 + n>> ELSE Append(NatDigits(n \div 10), 48 + (n % 10))

\* strconv.AppendInt(b, n, 10)
AppendInt(n) == IF n < 0 THEN <<45>> \o NatDigits(0 - n) ELSE NatDigits(n)

(***************************************************************************)
(* RESP values.                                                            *)
(***************************************************************************)
TypeSimpleString == 43
TypeError == 45
TypeInteger == 58
TypeBulkString == 36
TypeArray == 42

Value(t, s, n, null, arr) ==
    [Type |-> t, String |-> s, Integer |-> n, IsNull |-> null, Array |-> arr]

ZeroValue == Value(0, <<>>, 0, FALSE, <<>>)
MakeSimpleString(s) == Value(TypeSimpleString, s, 0, FALSE, <<>>)
MakeError(s) == Value(TypeError, s, 0, FALSE, <<>>)
MakeErrorWrongNumberOfArguments(cmd) ==
    MakeError(bWrongArgsPre \o cmd \o bWrongArgsPost)
MakeBulkString(s) == Value(TypeBulkString, s, 0, FALSE, <<>>)
MakeNilBulkString == Value(TypeBulkString, <<>>, 0, TRUE, <<>>)
MakeInteger(n) == Value(TypeInteger, <<>>, n, FALSE, <<>>)
MakeArray(values) == Value(TypeArray, <<>>, 0, FALSE, values)

RECURSIVE EncoderWrite(_)
RECURSIVE EncodeAll(_)
\* Encoder.Write: the bytes one value is serialized to
EncoderWrite(v) ==
    CASE v.Type = TypeInteger -> <<58>> \o AppendInt(v.Integer) \o bCRLF
      [] v.Type = TypeSimpleString -> <<43>> \o v.String \o bCRLF
      [] v.Type = TypeError -> <<45>> \o v.String \o bCRLF
      [] v.Type = TypeBulkString ->
            IF v.IsNull THEN bNullBulk
            ELSE <<36>> \o AppendInt(Len(v.String)) \o bCRLF \o v.String \o bCRLF
      [] v.Type = TypeArray ->
            IF v.IsNull THEN bNullArray
            ELSE <<42>> \o AppendInt(Len(v.Array)) \o bCRLF \o EncodeAll(v.Array)
      [] OTHER -> <<>>
EncodeAll(vs) ==
    IF Len(vs) = 0 THEN <<>> ELSE EncoderWrite(Head(vs)) \o EncodeAll(Tail(vs))

\* resp.SerializeCommand: the command as an array, its name first
SerializeCommand(cmd, args) == EncoderWrite(MakeArray(<<MakeBulkString(cmd)>> \o args))

(***************************************************************************)
(* Decoder: reading RESP values from a byte stream s at position pos.      *)
(* A result is [kind, val, pos]: kind "ok", "eof" (io.EOF), "err" (any     *)
(* other error) or "panic" (make with a negative length, or with the       *)
(* greatest int64, which no allocation can hold).                          *)
(***************************************************************************)
DecodeFail(kind, pos) == [kind |-> kind, val |-> ZeroValue, pos |-> pos]

\* Decoder.readLine: the bytes up to "\r\n"
readLine(s, pos) ==
    LET ends == {i \in pos..Len(s) : s[i] = 10}
    IN IF ends = {} THEN [ok |-> FALSE, line |-> <<>>, pos |-> Len(s) + 1]
       ELSE LET idx == CHOOSE i \in ends : \A j \in ends : i <= j
            IN IF idx - pos + 1 < 2 \/ s[idx - 1] # 13
               THEN [ok |-> FALSE, line |-> <<>>, pos |-> idx + 1]
               ELSE [ok |-> TRUE, line |-> SubSeq(s, pos, idx - 2), pos |-> idx + 1]

\* Decoder.readInteger: of the errors of ParseInt only ErrSyntax is returned
readInteger(s, pos) ==
    LET l == readLine(s, pos)
        n == ParseInt(l.line)
    IN IF ~l.ok \/ n.syntax THEN [ok |-> FALSE, n |-> 0, pos |-> l.pos]
       ELSE [ok |-> TRUE, n |-> n.v, pos |-> l.pos]

\* a reader that takes the body of a bulk string to be one line
readBulkStringLine(s, pos) ==
    LET size == readInteger(s, pos)
        l == readLine(s, size.pos)
    IN IF ~size.ok \/ ~l.ok THEN DecodeFail("err", size.pos)
       ELSE IF size.n = -1
       THEN [kind |-> "ok", val |-> Value(TypeBulkString, <<>>, 0, TRUE, <<>>), pos |-> size.pos]
       ELSE [kind |-> "ok",
             val |-> Value(TypeBulkString, l.line, 0, FALSE, <<>>),
             pos |-> l.pos]

\* Decoder.readBulkString, with the value built from it by Decoder.Read
readBulkString(s, pos) ==
    LET size == readInteger(s, pos)
        from == size.pos
        to == from + size.n - 1
    IN IF ~size.ok THEN DecodeFail("err", size.pos)
       ELSE IF size.n = -1
       THEN [kind |-> "ok", val |-> Value(TypeBulkString, <<>>, 0, TRUE, <<>>), pos |-> from]
       ELSE IF size.n < 0 \/ size.n = MaxInt64 THEN DecodeFail("panic", from)
       ELSE IF size.n > 0 /\ from > Len(s) THEN DecodeFail("eof", from)
       ELSE IF to > Len(s) THEN DecodeFail("err", Len(s) + 1)
       ELSE IF to + 2 > Len(s) \/ s[to + 1] # 13 \/ s[to + 2] # 10
       THEN DecodeFail("err", to + 1)
       ELSE [kind |-> "ok",
             val |-> Value(TypeBulkString, SubSeq(s, from, to), 0, FALSE, <<>>),
             pos |-> to + 3]

RECURSIVE DecoderRead(_, _)
RECURSIVE readElements(_, _, _, _)
\* Decoder.Read: the next complete value of the stream
DecoderRead(s, pos) ==
    IF pos > Len(s) THEN DecodeFail("eof", pos)
    ELSE LET t == s[pos] IN
      CASE t \in {TypeSimpleString, TypeError} ->
             LET l == readLine(s, pos + 1)
             IN IF ~l.ok THEN DecodeFail("err", l.pos)
                ELSE [kind |-> "ok", val |-> Value(t, l.line, 0, FALSE, <<>>), pos |-> l.pos]
        [] t = TypeInteger ->
             LET n == readInteger(s, pos + 1)
             IN IF ~n.ok THEN DecodeFail("err", n.pos)
                ELSE [kind |-> "ok", val |-> Value(t, <<>>, n.n, FALSE, <<>>), pos |-> n.pos]
        [] t = TypeBulkString -> readBulkString(s, pos + 1)
        [] t = TypeArray ->
             \* Decoder.readArray
             LET size == readInteger(s, pos + 1)
             IN IF ~size.ok THEN DecodeFail("err", size.pos)
                ELSE IF size.n = -1
                THEN [kind |-> "ok", val |-> Value(t, <<>>, 0, TRUE, <<>>), pos |-> size.pos]
                ELSE IF size.n < 0 \/ size.n = MaxInt64 THEN DecodeFail("panic", size.pos)
                ELSE readElements(s, size.pos, size.n, <<>>)
        [] OTHER -> DecodeFail("err", pos + 1)
\* the loop of Decoder.readArray: n more elements after those of buf
readElements(s, pos, n, buf) ==
    IF n = 0 THEN [kind |-> "ok", val |-> Value(TypeArray, <<>>, 0, FALSE, buf), pos |-> pos]
    ELSE LET el == DecoderRead(s, pos)
         IN IF el.kind = "eof" THEN DecodeFail("err", el.pos)
            ELSE IF el.kind # "ok" THEN DecodeFail(el.kind, el.pos)
            ELSE readElements(s, el.pos, n - 1, Append(buf, el.val))

(***************************************************************************)
(* MapStorage: one shard, m = [data, expires].  Go maps are functions      *)
(* whose domain is the set of keys present.  The lock is held for the      *)
(* whole of each operator below; t is time.Now().UnixNano().               *)
(***************************************************************************)
TypeString == 1
TypeList == 2
TypeSet == 3
TypeHash == 4
TypeZSet == 5

ExpNotFound == -2
ExpNoTimeout == -1
ExpActive == 1

Remove(f, k) == [x \in DOMAIN f \ {k} |-> f[x]]
Put(f, k, v) == [x \in DOMAIN f \cup {k} |-> IF x = k THEN v ELSE f[x]]

NewMapStorage == [data |-> <<>>, expires |-> <<>>]
Entity(type, value) == [Type |-> type, Value |-> value]
SetOptions(ttl, keep, nx, xx) == [TTL |-> ttl, KeepTTL |-> keep, NX |-> nx, XX |-> xx]

\* a loop that leaves before it inspects the entry that reaches the limit
InspectedShort(m, limit) ==
    LET n == Cardinality(DOMAIN m.expires)
    IN IF limit - 1 < n THEN (IF limit > 1 THEN limit - 1 ELSE 0) ELSE n

\* a deadline test that is late by one nanosecond
ExpiredLate(t, exp) == t > exp + 1

\* the test every operation applies to a deadline: time.Now().UnixNano() > exp
Expired(t, exp) == t > exp

DropKey(m, key) == [data |-> Remove(m.data, key), expires |-> Remove(m.expires, key)]

\* MapStorage.Get, up to RUnlock: what the shared section reads
GetRead(m, key) ==
    [hasExp |-> key \in DOMAIN m.expires,
     exp |-> IF key \in DOMAIN m.expires THEN m.expires[key] ELSE 0,
     ok |-> key \in DOMAIN m.data,
     entity |-> IF key \in DOMAIN m.data THEN m.data[key] ELSE Entity(0, <<>>)]

\* an exclusive section of Get that deletes the key without reading its
\* deadline again
GetLockedUnchecked(m, key, t) ==
    [m |-> DropKey(m, key), val |-> <<>>, ok |-> FALSE, err |-> FALSE]

\* MapStorage.Get, the exclusive section after the deadline was seen passed
GetLocked(m, key, t) ==
    IF key \in DOMAIN m.expires /\ Expired(t, m.expires[key])
    THEN [m |-> DropKey(m, key), val |-> <<>>, ok |-> FALSE, err |-> FALSE]
    ELSE IF key \in DOMAIN m.data /\ m.data[key].Type # TypeString
    THEN [m |-> m, val |-> <<>>, ok |-> FALSE, err |-> TRUE]
    ELSE IF key \in DOMAIN m.data
    THEN [m |-> m, val |-> m.data[key].Value, ok |-> TRUE, err |-> FALSE]
    ELSE [m |-> m, val |-> <<>>, ok |-> FALSE, err |-> FALSE]

\* a Set that writes over a value of any type
MapSetAnyType(m, key, value, options, t) ==
    LET stale == /\ key \in DOMAIN m.data
                 /\ key \in DOMAIN m.expires
                 /\ Expired(t, m.expires[key])
        m1 == IF stale THEN DropKey(m, key) ELSE m
        exists == key \in DOMAIN m1.data
    IN IF options.NX /\ exists THEN [m |-> m1, ok |-> FALSE]
       ELSE IF options.XX /\ ~exists THEN [m |-> m1, ok |-> FALSE]
       ELSE [m |-> [data |-> Put(m1.data, key, Entity(TypeString, value)),
                    expires |->
                       IF options.KeepTTL
                       THEN (IF ~exists THEN Remove(m1.expires, key) ELSE m1.expires)
                       ELSE IF options.TTL = 0 THEN Remove(m1.expires, key)
                       ELSE Put(m1.expires, key, Wrap(t + options.TTL))],
             ok |-> TRUE]

\* MapStorage.Set at time t
MapSet(m, key, value, options, t) ==
    LET stale == /\ key \in DOMAIN m.data
                 /\ key \in DOMAIN m.expires
                 /\ Expired(t, m.expires[key])
        m1 == IF stale THEN DropKey(m, key) ELSE m
        exists == key \in DOMAIN m1.data
    IN IF key \in DOMAIN m.data /\ m.data[key].Type # TypeString
       THEN [m |-> m, ok |-> FALSE]
       ELSE IF options.NX /\ exists THEN [m |-> m1, ok |-> FALSE]
       ELSE IF options.XX /\ ~exists THEN [m |-> m1, ok |-> FALSE]
       ELSE [m |-> [data |-> Put(m1.data, key, Entity(TypeString, value)),
                    expires |->
                       IF options.KeepTTL
                       THEN (IF ~exists THEN Remove(m1.expires, key) ELSE m1.expires)
                       ELSE IF options.TTL = 0 THEN Remove(m1.expires, key)
                       ELSE Put(m1.expires, key, Wrap(t + options.TTL))],
             ok |-> TRUE]

\* MapStorage.Delete
MapDelete(m, key) ==
    IF key \in DOMAIN m.data THEN [m |-> DropKey(m, key), ok |-> TRUE]
    ELSE [m |-> m, ok |-> FALSE]

\* entity.Value == nil: only Restore leaves an Entity without a value, one of
\* a type it does not read
IsNil(entity) == entity.Type \notin {TypeString, TypeHash}

\* HashField
HashField(value, expireAt) == [Value |-> value, ExpireAt |-> expireAt]

\* MapStorage.getHash: whether key holds a hash
getHash(m, key) ==
    /\ key \in DOMAIN m.data
    /\ m.data[key].Type = TypeHash
    /\ ~IsNil(m.data[key])

\* MapStorage.checkFieldLocked at time t: the hash as it leaves it, the
\* length it returns and whether the field is there
checkFieldLocked(hash, field, t) ==
    IF field \notin DOMAIN hash THEN [hash |-> hash, len |-> 0, ok |-> FALSE]
    ELSE IF hash[field].ExpireAt > 0 /\ t > hash[field].ExpireAt
    THEN [hash |-> Remove(hash, field),
          len |-> Cardinality(DOMAIN hash \ {field}), ok |-> FALSE]
    ELSE [hash |-> hash, len |-> Cardinality(DOMAIN hash), ok |-> TRUE]

\* m with the hash h at key, whose deadline stays as it is
WithHash(m, key, h) ==
    [data |-> Put(m.data, key, Entity(TypeHash, h)), expires |-> m.expires]

\* delete(m.data, key), the deadline of key left in place
DropData(m, key) == [data |-> Remove(m.data, key), expires |-> m.expires]

\* MapStorage.HSet: fields maps each field to its value
MapHSet(m, key, fields) ==
    IF key \in DOMAIN m.data /\ m.data[key].Type # TypeHash
    THEN [m |-> m, ret |-> 0 - 1]
    ELSE LET hash == IF key \notin DOMAIN m.data \/ IsNil(m.data[key]) THEN <<>>
                     ELSE m.data[key].Value
             created == Cardinality(DOMAIN fields \ DOMAIN hash)
             h1 == [f \in DOMAIN hash \cup DOMAIN fields |->
                      IF f \in DOMAIN fields THEN HashField(fields[f], 0) ELSE hash[f]]
         IN [m |-> WithHash(m, key, h1), ret |-> created]

\* MapStorage.HGet at time t
MapHGet(m, key, field, t) ==
    IF ~getHash(m, key) THEN [m |-> m, val |-> <<>>, ok |-> FALSE]
    ELSE LET c == checkFieldLocked(m.data[key].Value, field, t)
         IN IF c.len = 0 THEN [m |-> DropData(m, key), val |-> <<>>, ok |-> FALSE]
            ELSE IF ~c.ok THEN [m |-> WithHash(m, key, c.hash), val |-> <<>>, ok |-> FALSE]
            ELSE [m |-> m, val |-> c.hash[field].Value, ok |-> TRUE]

\* MapStorage.HGetAll at time t: nil is told by ok
MapHGetAll(m, key, t) ==
    IF ~getHash(m, key) THEN [m |-> m, result |-> <<>>, ok |-> FALSE]
    ELSE LET hash == m.data[key].Value
             kept == {f \in DOMAIN hash :
                        ~(hash[f].ExpireAt > 0 /\ t > hash[f].ExpireAt)}
         IN IF kept = {} THEN [m |-> DropData(m, key), result |-> <<>>, ok |-> FALSE]
            ELSE [m |-> WithHash(m, key, [f \in kept |-> hash[f]]),
                  result |-> [f \in kept |-> hash[f].Value], ok |-> TRUE]

\* MapStorage.HDel of the fields of the set fields
MapHDel(m, key, fields) ==
    IF ~getHash(m, key) THEN [m |-> m, ret |-> 0]
    ELSE LET hash == m.data[key].Value
             left == DOMAIN hash \ fields
         IN [m |-> IF left = {} THEN DropKey(m, key)
                   ELSE WithHash(m, key, [f \in left |-> hash[f]]),
             ret |-> Cardinality(DOMAIN hash \cap fields)]

\* MapStorage.HExists at time t
MapHExists(m, key, field, t) ==
    IF ~getHash(m, key) THEN [m |-> m, ret |-> 0]
    ELSE LET c == checkFieldLocked(m.data[key].Value, field, t)
         IN IF c.len = 0 THEN [m |-> DropData(m, key), ret |-> 0]
            ELSE IF ~c.ok THEN [m |-> WithHash(m, key, c.hash), ret |-> 0]
            ELSE [m |-> m, ret |-> 1]

\* an exclusive section of Expiry that deletes the key without reading the
\* entry again
ExpiryLockedUnchecked(m, key, t) ==
    [m |-> DropKey(m, key), d |-> 0, status |-> ExpNotFound]

\* MapStorage.Expiry, the exclusive section after the deadline was seen passed
ExpiryLocked(m, key, t) ==
    IF key \notin DOMAIN m.data THEN [m |-> m, d |-> 0, status |-> ExpNotFound]
    ELSE IF key \notin DOMAIN m.expires THEN [m |-> m, d |-> 0, status |-> ExpNoTimeout]
    ELSE IF Expired(t, m.expires[key])
    THEN [m |-> DropKey(m, key), d |-> 0, status |-> ExpNotFound]
    ELSE [m |-> m, d |-> m.expires[key] - t, status |-> ExpActive]

\* MapStorage.Persist, the exclusive section: leak tells that the lock is
\* not released on this path
PersistLocked(m, key) ==
    IF key \notin DOMAIN m.data \/ key \notin DOMAIN m.expires
    THEN [m |-> m, ret |-> 0, leak |-> TRUE]
    ELSE [m |-> [data |-> m.data, expires |-> Remove(m.expires, key)],
          ret |-> 1, leak |-> FALSE]

\* the number of entries the loop of MapStorage.DeleteExpired inspects
Inspected(m, limit) ==
    IF limit <= 1 \/ Cardinality(DOMAIN m.expires) <= 1
    THEN (IF DOMAIN m.expires = {} THEN 0 ELSE 1)
    ELSE IF limit < Cardinality(DOMAIN m.expires) THEN limit
    ELSE Cardinality(DOMAIN m.expires)

\* MapStorage.DeleteExpired over the entries the map iteration yields
MapDeleteExpired(m, sample, t) ==
    LET dead == {k \in sample : Expired(t, m.expires[k])}
    IN [m |-> [data |-> [k \in DOMAIN m.data \ dead |-> m.data[k]],
               expires |-> [k \in DOMAIN m.expires \ dead |-> m.expires[k]]],
        expired |-> Cardinality(dead),
        checked |-> Cardinality(sample)]

(***************************************************************************)
(* ShardedMapStorage.                                                      *)
(***************************************************************************)
RECURSIVE BitXor(_, _)
BitXor(a, b) ==
    IF a = 0 /\ b = 0 THEN 0
    ELSE (((a % 2) + (b % 2)) % 2) + 2 * BitXor(a \div 2, b \div 2)

RECURSIVE BitAnd(_, _)
BitAnd(a, b) ==
    IF a = 0 \/ b = 0 THEN 0
    ELSE ((a % 2) * (b % 2)) + 2 * BitAnd(a \div 2, b \div 2)

\* The low byte of the FNV-1a offset basis 0x811C9DC5 and prime 0x01000193.
\* The mask is at most 63, and the low byte of a product or an xor depends
\* on the low bytes of its operands only, so the low byte of the 32-bit
\* hash decides the shard.
FnvOffsetLow == 197
FnvPrimeLow == 147

RECURSIVE Fnv1aLow(_, _)
Fnv1aLow(h, key) ==
    IF Len(key) = 0 THEN h
    ELSE Fnv1aLow((BitXor(h, Head(key)) * FnvPrimeLow) % 256, Tail(key))

\* ShardedMapStorage.getShardIndex: hash.Sum32() & s.shardMask
getShardIndex(key, shardMask) == BitAnd(Fnv1aLow(FnvOffsetLow, key), shardMask)

RECURSIVE OnesCount(_)
OnesCount(n) == IF n = 0 THEN 0 ELSE (n % 2) + OnesCount(n \div 2)

\* a constructor that takes every power of two
NewShardedMapStorageAnyPower(requestedShards) ==
    IF OnesCount(requestedShards) # 1
    THEN [ok |-> FALSE, shards |-> <<>>, shardMask |-> 0]
    ELSE [ok |-> TRUE,
          shards |-> [i \in 0..(requestedShards - 1) |-> [data |-> <<>>, expires |-> <<>>]],
          shardMask |-> requestedShards - 1]

\* NewShardedMapStorage
NewShardedMapStorage(requestedShards) ==
    IF OnesCount(requestedShards) # 1 \/ requestedShards > 64
    THEN [ok |-> FALSE, shards |-> <<>>, shardMask |-> 0]
    ELSE [ok |-> TRUE,
          shards |-> [i \in 0..(requestedShards - 1) |-> NewMapStorage],
          shardMask |-> requestedShards - 1]

(***************************************************************************)
(* persistence.AOF.  The writer and the file hold whole payloads: a        *)
(* payload is far shorter than the 4096 bytes of the bufio.Writer, and     *)
(* what the writer passes on by itself when it fills is not modelled.      *)
(***************************************************************************)
fsyncAlways == 1
fsyncEverySec == 2
fsyncNo == 3

parseStrategy(s) ==
    CASE s = "always" -> fsyncAlways
      [] s = "no" -> fsyncNo
      [] OTHER -> fsyncEverySec

\* the capacity of commandsChan, 10000 in the code
ChanCap == 2

\* NewAOF on a log that does not exist yet; listen is the position of the
\* goroutine NewAOF starts.  sent counts the payloads ever put in the channel
\* and sentAtClose is its value when Close was called.
NewAOF(strategyStr) ==
    [strategy |-> parseStrategy(strategyStr), commandsChan |-> <<>>,
     writer |-> <<>>, file |-> <<>>, synced |-> 0, stopChan |-> FALSE,
     listen |-> "start", tickC |-> 0, closed |-> FALSE,
     sent |-> 0, sentAtClose |-> 0]

\* e.aof == nil
NoAOF == [NewAOF("no") EXCEPT !.listen = "none"]

\* AOF.flush: writer.Flush hands the buffered payloads to the file
flush(a) == [a EXCEPT !.file = a.file \o a.writer, !.writer = <<>>]

\* file.Sync after what flush did
Sync(a) == [a EXCEPT !.synced = Len(a.file)]

commandMetadata(name, arity, flags, firstKey, lastKey, step) ==
    [name |-> name, arity |-> arity, flags |-> flags,
     firstKey |-> firstKey, lastKey |-> lastKey, step |-> step]

\* getCommandRegistry
getCommandRegistry == <<
    \* ping
    commandMetadata(<<112, 105, 110, 103>>, -1,
        <<<<102, 97, 115, 116>>, <<115, 116, 97, 108, 101>>>>, 0, 0, 0),
    \* get
    commandMetadata(<<103, 101, 116>>, 2,
        <<<<114, 101, 97, 100, 111, 110, 108, 121>>, <<102, 97, 115, 116>>>>, 1, 1, 1),
    \* set
    commandMetadata(<<115, 101, 116>>, -3,
        <<<<119, 114, 105, 116, 101>>, <<100, 101, 110, 121, 111, 111, 109>>>>, 1, 1, 1),
    \* del
    commandMetadata(<<100, 101, 108>>, -2,
        <<<<119, 114, 105, 116, 101>>>>, 1, -1, 1),
    \* ttl
    commandMetadata(<<116, 116, 108>>, 2,
        <<<<114, 101, 97, 100, 111, 110, 108, 121>>, <<102, 97, 115, 116>>>>, 1, 1, 1),
    \* pttl
    commandMetadata(<<112, 116, 116, 108>>, 2,
        <<<<114, 101, 97, 100, 111, 110, 108, 121>>, <<102, 97, 115, 116>>>>, 1, 1, 1),
    \* persist
    commandMetadata(<<112, 101, 114, 115, 105, 115, 116>>, 2,
        <<<<119, 114, 105, 116, 101>>, <<102, 97, 115, 116>>>>, 1, 1, 1),
    \* command
    commandMetadata(<<99, 111, 109, 109, 97, 110, 100>>, -1,
        <<<<114, 97, 110, 100, 111, 109>>, <<108, 111, 97, 100, 105, 110, 103>>, <<115, 116, 97, 108, 101>>>>, 0, 0, 0) >>

(***************************************************************************)
(* persistence.RDB and the files it works on.  A directory entry names an  *)
(* inode (0: no such file); an inode holds the bytes written to it and the *)
(* bytes that an fsync has made durable.  A save task is one call of       *)
(* RDB.Save: f is the inode its file descriptor is open on, writer the     *)
(* bytes handed to its bufio.Writer, by the connection that waits for it.  *)
(***************************************************************************)
\* how many saves one run starts
MaxSaves == 2

Savers == 1..MaxSaves

\* r.filename, and tmpFile := r.filename + ".tmp"
filename == "main"
\* the temporary name taken to be the name itself
tmpFileSame == filename
tmpFile == "tmp"

RECURSIVE LittleEndian(_, _)
\* binary.LittleEndian.PutUint32 and PutUint64: the n low bytes of x
LittleEndian(x, n) ==
    IF n = 0 THEN <<>> ELSE <<x % 256>> \o LittleEndian(x \div 256, n - 1)

\* writeString
writeString(s) == LittleEndian(Len(s), 4) \o s

RECURSIVE HashFields(_, _, _)
\* MapStorage.Snapshot, the loop over the fields of a hash in the order the
\* map iteration yields them, at time t
HashFields(h, order, t) ==
    IF order = <<>> THEN <<>>
    ELSE LET val == h[Head(order)]
         IN (IF val.ExpireAt > 0 /\ t > val.ExpireAt THEN <<>>
             ELSE writeString(Head(order)) \o writeString(val.Value)
                    \o LittleEndian(val.ExpireAt, 8))
            \o HashFields(h, Tail(order), t)

\* the orders in which a map iteration may yield the keys S
Orders(S) ==
    {o \in [1..Cardinality(S) -> S] : \A i, j \in DOMAIN o : o[i] = o[j] => i = j}

\* MapStorage.Snapshot: the value of a hash, its fields in the order `order`
HashSnapshot(h, order, t) ==
    LittleEndian(Cardinality(DOMAIN h), 4) \o HashFields(h, order, t)

\* MapStorage.Snapshot at time t: the header, the key and the value of one
\* key.  The fields of a hash are taken in one of the orders of the map
\* iteration.
SnapshotRecord(m, key, t) ==
    LittleEndian(Len(key), 4)
        \o LittleEndian(IF key \in DOMAIN m.expires THEN m.expires[key] ELSE 0, 8)
        \o <<m.data[key].Type>>
        \o key
        \o (IF m.data[key].Type = TypeString THEN writeString(m.data[key].Value)
            ELSE IF m.data[key].Type = TypeHash
            THEN HashSnapshot(m.data[key].Value,
                              CHOOSE o \in Orders(DOMAIN m.data[key].Value) : TRUE, t)
            ELSE <<>>)

RECURSIVE MapSnapshot(_, _, _)
\* MapStorage.Snapshot over the keys in the order the map iteration yields
MapSnapshot(m, order, t) ==
    IF order = <<>> THEN <<>>
    ELSE SnapshotRecord(m, Head(order), t) \o MapSnapshot(m, Tail(order), t)

\* a write of p at offset 0 of a file that holds bytes
WriteAt0(bytes, p) ==
    IF Len(p) >= Len(bytes) THEN p ELSE p \o SubSeq(bytes, Len(p) + 1, Len(bytes))

\* a length no stream of the model reaches
TooLong == 65536

\* binary.LittleEndian.Uint32 of the four bytes b.  A length with a high byte
\* set is reported as TooLong: io.ReadFull fails on it the same way.
Uint32(b) == IF b[3] # 0 \/ b[4] # 0 THEN TooLong ELSE b[1] + 256 * b[2]

\* int64(binary.LittleEndian.Uint64(b)) of the eight bytes b.  The deadlines
\* of the model fit 24 bits, so the bytes above carry the sign only.
Int64(b) ==
    LET low == b[1] + 256 * b[2] + 65536 * b[3]
    IN IF b[8] < 128 THEN low ELSE low - 16777216

\* the nil interface value of an Entity whose value Restore did not read
nilValue == <<>>

\* readString from byte pos of the stream on: the string and the byte after it
readString(bytes, pos) ==
    LET left == Len(bytes) - pos + 1
        strLen == Uint32(SubSeq(bytes, pos, pos + 3))
    IN IF left < 4 THEN [ok |-> FALSE, s |-> <<>>, pos |-> pos]
       ELSE IF left - 4 < strLen THEN [ok |-> FALSE, s |-> <<>>, pos |-> pos]
       ELSE [ok |-> TRUE, s |-> SubSeq(bytes, pos + 4, pos + 3 + strLen),
             pos |-> pos + 4 + strLen]

RECURSIVE ReadHash(_, _, _, _)
\* MapStorage.Restore, case TypeHash: the loop that reads count fields
ReadHash(bytes, pos, count, h) ==
    IF count = 0 THEN [ok |-> TRUE, h |-> h, pos |-> pos]
    ELSE LET field == readString(bytes, pos)
             val == readString(bytes, field.pos)
         IN IF ~field.ok \/ ~val.ok \/ Len(bytes) - val.pos + 1 < 8
            THEN [ok |-> FALSE, h |-> h, pos |-> pos]
            ELSE ReadHash(bytes, val.pos + 8, count - 1,
                          Put(h, field.s,
                              HashField(val.s, Int64(SubSeq(bytes, val.pos, val.pos + 7)))))

RECURSIVE MapRestore(_, _, _, _, _)
\* MapStorage.Restore at time t: the loop from byte pos of the stream on,
\* n records read so far.  io.ReadFull gives io.EOF when no byte is left
\* and an error when fewer than asked for are; m is the map as the loop
\* left it.
MapRestore(m, bytes, pos, t, n) ==
    LET left == Len(bytes) - pos + 1
        header == SubSeq(bytes, pos, pos + 12)
        keyLen == Uint32(SubSeq(header, 1, 4))
        exp == Int64(SubSeq(header, 5, 12))
        valueType == header[13]
        keyAt == pos + 13
        key == SubSeq(bytes, keyAt, keyAt + keyLen - 1)
        valAt == keyAt + keyLen
        strLen == Uint32(SubSeq(bytes, valAt, valAt + 3))
        isString == valueType = TypeString
        isHash == valueType = TypeHash
        hash == ReadHash(bytes, valAt + 4, Uint32(SubSeq(bytes, valAt, valAt + 3)), <<>>)
        value == IF isString THEN SubSeq(bytes, valAt + 4, valAt + 3 + strLen)
                 ELSE IF isHash THEN hash.h
                 ELSE nilValue
        next == IF isString THEN valAt + 4 + strLen
                ELSE IF isHash THEN hash.pos
                ELSE valAt
        m1 == [data |-> Put(m.data, key, Entity(valueType, value)),
               expires |-> IF exp > 0 THEN Put(m.expires, key, exp) ELSE m.expires]
    IN IF left = 0 THEN [ok |-> TRUE, m |-> m, n |-> n]
       ELSE IF left < 13 THEN [ok |-> FALSE, m |-> m, n |-> n]
       ELSE IF left - 13 < keyLen THEN [ok |-> FALSE, m |-> m, n |-> n]
       ELSE IF isString /\ left - 13 - keyLen < 4 THEN [ok |-> FALSE, m |-> m, n |-> n]
       ELSE IF isString /\ left - 13 - keyLen - 4 < strLen
       THEN [ok |-> FALSE, m |-> m, n |-> n]
       ELSE IF isHash /\ left - 13 - keyLen < 4 THEN [ok |-> FALSE, m |-> m, n |-> n]
       ELSE IF isHash /\ ~hash.ok THEN [ok |-> FALSE, m |-> m, n |-> n]
       ELSE IF exp > 0 /\ t > exp THEN MapRestore(m, bytes, next, t, n + 1)
       ELSE MapRestore(m1, bytes, next, t, n + 1)

\* a Restore that hands every entry of tempLoader to the first shard
DistributeFirst(st, tempLoader) ==
    LET Merge(f, g, D) == [k \in DOMAIN f \cup D |-> IF k \in D THEN g[k] ELSE f[k]]
    IN [st EXCEPT !.shards[0] =
          [data |-> Merge(st.shards[0].data, tempLoader.data, DOMAIN tempLoader.data),
           expires |-> Merge(st.shards[0].expires, tempLoader.expires,
                             {k \in DOMAIN tempLoader.data :
                                /\ k \in DOMAIN tempLoader.expires
                                /\ tempLoader.expires[k] > 0})]]

\* the loop of ShardedMapStorage.Restore that hands the entries of
\* tempLoader to their shards
Distribute(st, tempLoader) ==
    LET In(s, S) == {k \in S : getShardIndex(k, st.shardMask) = s}
        Merge(f, g, D) == [k \in DOMAIN f \cup D |-> IF k \in D THEN g[k] ELSE f[k]]
    IN [st EXCEPT !.shards = [s \in DOMAIN st.shards |->
          [data |-> Merge(st.shards[s].data, tempLoader.data,
                          In(s, DOMAIN tempLoader.data)),
           expires |-> Merge(st.shards[s].expires, tempLoader.expires,
                             In(s, {k \in DOMAIN tempLoader.data :
                                      /\ k \in DOMAIN tempLoader.expires
                                      /\ tempLoader.expires[k] > 0}))]]]

\* a Restore that fills the shards with what the loader read before it failed
ShardedRestorePartial(st, bytes, pos, t) ==
    LET r == MapRestore(NewMapStorage, bytes, pos, t, 0)
    IN [ok |-> r.ok, st |-> Distribute(st, r.m), n |-> r.n]

\* ShardedMapStorage.Restore at time t of the stream from byte pos on
ShardedRestore(st, bytes, pos, t) ==
    LET r == MapRestore(NewMapStorage, bytes, pos, t, 0)
    IN IF ~r.ok THEN [ok |-> FALSE, st |-> st, n |-> r.n]
       ELSE [ok |-> TRUE, st |-> Distribute(st, r.m), n |-> r.n]

\* RDB.Load at time t into the store st: exists tells whether os.Open finds
\* the file, bytes is its content
RDBLoad(st, exists, bytes, t) ==
    IF ~exists THEN [kind |-> "nofile", st |-> st, n |-> 0]
    ELSE IF Len(bytes) < Len(bMagic) THEN [kind |-> "error", st |-> st, n |-> 0]
    ELSE IF SubSeq(bytes, 1, Len(bMagic)) # bMagic
    THEN [kind |-> "badmagic", st |-> st, n |-> 0]
    ELSE LET r == ShardedRestore(st, bytes, Len(bMagic) + 1, t)
         IN [kind |-> IF r.ok THEN "ok" ELSE "error", st |-> r.st, n |-> r.n]

FreeTask == [pc |-> "free", f |-> 0, writer |-> <<>>, shard |-> 0, by |-> 0]

\* NewRDB, with no file at r.filename.  installed is the content the last
\* rename gave r.filename and outputs the complete outputs of the saves;
\* load tells how RDB.Load ended, after how many records, and whether the
\* file was altered from outside.
NewRDB(interval) ==
    [names |-> [n \in {filename, "tmp"} |-> 0],
     inodes |-> <<>>,
     task |-> [t \in Savers |-> FreeTask],
     auto |-> IF interval # "" THEN "select" ELSE "off",
     tickC |-> 0,
     up |-> TRUE,
     installed |-> [exists |-> FALSE, bytes |-> <<>>],
     outputs |-> {},
     load |-> [kind |-> "none", records |-> 0, altered |-> FALSE]]

\* e.rdb == nil
NoRDB == [NewRDB("") EXCEPT !.up = FALSE]

(***************************************************************************)
(* The state.                                                              *)
(***************************************************************************)
VARIABLES
    now,        \* time.Now().UnixNano()
    cfg,        \* config.Config
    menu,       \* per connection: the command frames its client sends
    sock,       \* per connection: the bytes of its socket, when they are followed
    issued,     \* how many frames the clients have sent
    store,      \* ShardedMapStorage: [shards, shardMask]
    mu,         \* per shard: 0 when MapStorage.mu is free, else its holder
    conn,       \* per connection: the position and locals of handleConnection
    gc,         \* Engine.startGCLoop: [pc, pending, ratios, stats]
    tickC,      \* the reaper's ticker.C, a channel of capacity 1
    stopGC,     \* Engine.stopGC is closed
    aof,        \* persistence.AOF: channel, writer, file and the listen goroutine
    rdb,        \* persistence.RDB: the files, the save tasks, the auto-save loop
    sd          \* the position of Engine.Shutdown

Conns == {1, 2}

Shards == DOMAIN store.shards
ShardOf(key) == getShardIndex(key, store.shardMask)

\* a deadline of the shard that lies in the past at time t
InPast(m, key, t) == key \in DOMAIN m.expires /\ m.expires[key] < t
Absent(m, key) == key \notin DOMAIN m.data /\ key \notin DOMAIN m.expires

\* a command frame as a client sends it: an array of bulk strings
Frame(name, strs) ==
    [name |-> name, args |-> [i \in 1..Len(strs) |-> MakeBulkString(strs[i])]]

\* net.Conn with the Decoder and the Encoder of NewPeer: in holds the bytes
\* the client sends before it closes its side, pos is the next byte the
\* Decoder reads, cmds counts the command frames read, out holds the bytes
\* written to the client
NewSock(bytes) ==
    [in |-> bytes, pos |-> 1, cmds |-> 0, out |-> <<>>, open |-> TRUE, traced |-> TRUE]

\* a connection whose bytes are not followed: its frames come from menu
NoSock == [NewSock(<<>>) EXCEPT !.traced = FALSE]

IdleConn ==
    [pc |-> "idle", name |-> <<>>, args |-> <<>>, key |-> <<>>,
     exp |-> 0, value |-> <<>>, options |-> SetOptions(0, FALSE, FALSE, FALSE),
     past |-> FALSE, i |-> 0, cnt |-> 0, res |-> ZeroValue,
     hExpired |-> FALSE, hGone |-> FALSE, enq |-> <<>>]

\* handleConnection reads a frame and calls Engine.Execute with the
\* upper-cased name; Execute finds the handler in e.commands
CanCall(c, cmd, name) ==
    /\ conn[c].pc = "idle"
    /\ issued < MaxCmds
    /\ issued' = issued + 1
    /\ cmd \in menu[c]
    /\ sock[c].traced => sock[c].cmds > issued
    /\ ToUpper(cmd.name) = name

Begin(c, cmd) ==
    [IdleConn EXCEPT !.name = ToUpper(cmd.name), !.args = cmd.args]

\* the handler returned res: its locals are gone
Return(r, res) ==
    [IdleConn EXCEPT !.pc = "tail", !.name = r.name, !.args = r.args,
                     !.res = res, !.hExpired = r.hExpired, !.hGone = r.hGone]

SetShard(s, m) == [store EXCEPT !.shards[s] = m]

Registered == {bGET, bSET, bDEL, bPING, bCOMMAND, bTTL, bPTTL, bPERSIST, bSAVE, bBGSAVE}

(***************************************************************************)
(* Handlers.                                                               *)
(***************************************************************************)
\* get, and MapStorage.Get up to RUnlock
get(c, cmd) ==
    /\ CanCall(c, cmd, bGET)
    /\ IF Len(cmd.args) # 1
       THEN conn' = [conn EXCEPT ![c] =
                        Return(Begin(c, cmd), MakeErrorWrongNumberOfArguments(bGET))]
       ELSE LET key == cmd.args[1].String
                m == store.shards[ShardOf(key)]
                r == GetRead(m, key)
                b == [Begin(c, cmd) EXCEPT !.key = key,
                                           !.hExpired = InPast(m, key, now),
                                           !.hGone = Absent(m, key)]
            IN /\ mu[ShardOf(key)] = 0
               /\ conn' = [conn EXCEPT ![c] =
                    IF ~r.ok THEN Return(b, MakeNilBulkString)
                    ELSE IF r.entity.Type # TypeString THEN Return(b, MakeError(bWrongType))
                    ELSE IF ~r.hasExp THEN Return(b, MakeBulkString(r.entity.Value))
                    ELSE [b EXCEPT !.pc = "get_check", !.exp = r.exp,
                                   !.value = r.entity.Value]]
    /\ UNCHANGED <<now, cfg, menu, sock, store, mu, gc, tickC, stopGC, aof, rdb, sd>>

\* MapStorage.Get: hasExp && time.Now().UnixNano() > exp
GetCheck(c) ==
    /\ conn[c].pc = "get_check"
    /\ conn' = [conn EXCEPT ![c] =
                  IF Expired(now, conn[c].exp) THEN [@ EXCEPT !.pc = "get_lock"]
                  ELSE Return(@, MakeBulkString(conn[c].value))]
    /\ UNCHANGED <<now, cfg, menu, sock, issued, store, mu, gc, tickC, stopGC, aof, rdb, sd>>

\* MapStorage.Get: the exclusive section
GetLock(c) ==
    LET key == conn[c].key
        s == ShardOf(key)
        r == GetLocked(store.shards[s], key, now)
    IN /\ conn[c].pc = "get_lock"
       /\ mu[s] = 0
       /\ store' = SetShard(s, r.m)
       /\ conn' = [conn EXCEPT ![c] =
            [Return(@, IF r.err THEN MakeError(bWrongType)
                       ELSE IF r.ok THEN MakeBulkString(r.val)
                       ELSE MakeNilBulkString)
               EXCEPT !.hExpired = InPast(store.shards[s], key, now),
                      !.hGone = Absent(r.m, key)]]
       /\ UNCHANGED <<now, cfg, menu, sock, issued, mu, gc, tickC, stopGC, aof, rdb, sd>>

\* the replies of ttl and pttl
RECURSIVE Pow2(_)
Pow2(n) == IF n <= 0 THEN 1 ELSE 2 * Pow2(n - 1)

\* a conversion that cuts the duration to whole seconds
WholeSeconds(d) == d \div Second

\* int64(duration.Seconds()): Seconds adds float64(d / Second) and
\* float64(d % Second) / 1e9.  Below 2^(MantissaBits - 1) seconds the sum keeps
\* the fraction; from there on the floats are the whole numbers, and the sum
\* is the nearest of them, the even one of two equally near
DurationSeconds(d) ==
    LET sec == d \div Second
        nsec == d % Second
    IN IF sec < Pow2(MantissaBits - 1) THEN sec
       ELSE IF 2 * nsec > Second THEN sec + 1
       ELSE IF 2 * nsec = Second /\ sec % 2 = 1 THEN sec + 1
       ELSE sec

\* duration.Milliseconds(): an integer division
DurationMilliseconds(d) == d \div Millisecond

ExpiryReply(name, d, code) ==
    IF code < 0 THEN MakeInteger(code)
    ELSE IF name = bTTL THEN MakeInteger(DurationSeconds(d))
    ELSE MakeInteger(DurationMilliseconds(d))

\* ttl and pttl, and MapStorage.Expiry up to RUnlock
ttl(c, cmd) ==
    /\ CanCall(c, cmd, ToUpper(cmd.name))
    /\ ToUpper(cmd.name) \in {bTTL, bPTTL}
    /\ IF Len(cmd.args) # 1
       THEN conn' = [conn EXCEPT ![c] =
               Return(Begin(c, cmd), MakeErrorWrongNumberOfArguments(ToUpper(cmd.name)))]
       ELSE LET key == cmd.args[1].String
                m == store.shards[ShardOf(key)]
                r == GetRead(m, key)
                b == [Begin(c, cmd) EXCEPT !.key = key,
                                           !.hExpired = InPast(m, key, now),
                                           !.hGone = Absent(m, key)]
            IN /\ mu[ShardOf(key)] = 0
               /\ conn' = [conn EXCEPT ![c] =
                    IF ~r.ok THEN Return(b, ExpiryReply(b.name, 0, ExpNotFound))
                    ELSE IF ~r.hasExp THEN Return(b, ExpiryReply(b.name, 0, ExpNoTimeout))
                    ELSE [b EXCEPT !.pc = "exp_check", !.exp = r.exp]]
    /\ UNCHANGED <<now, cfg, menu, sock, store, mu, gc, tickC, stopGC, aof, rdb, sd>>

\* MapStorage.Expiry: now := time.Now().UnixNano(); if now > exp
ExpiryCheck(c) ==
    /\ conn[c].pc = "exp_check"
    /\ conn' = [conn EXCEPT ![c] =
                  IF Expired(now, conn[c].exp) THEN [@ EXCEPT !.pc = "exp_lock"]
                  ELSE Return(@, ExpiryReply(conn[c].name, conn[c].exp - now, ExpActive))]
    /\ UNCHANGED <<now, cfg, menu, sock, issued, store, mu, gc, tickC, stopGC, aof, rdb, sd>>

\* MapStorage.Expiry: the exclusive section
ExpiryLock(c) ==
    LET key == conn[c].key
        s == ShardOf(key)
        r == ExpiryLocked(store.shards[s], key, now)
    IN /\ conn[c].pc = "exp_lock"
       /\ mu[s] = 0
       /\ store' = SetShard(s, r.m)
       /\ conn' = [conn EXCEPT ![c] =
            [Return(@, ExpiryReply(conn[c].name, r.d, r.status))
               EXCEPT !.hExpired = InPast(store.shards[s], key, now),
                      !.hGone = Absent(r.m, key)]]
       /\ UNCHANGED <<now, cfg, menu, sock, issued, mu, gc, tickC, stopGC, aof, rdb, sd>>

\* persist, and MapStorage.Persist up to RUnlock
persist(c, cmd) ==
    /\ CanCall(c, cmd, bPERSIST)
    /\ IF Len(cmd.args) # 1
       THEN conn' = [conn EXCEPT ![c] =
                        Return(Begin(c, cmd), MakeErrorWrongNumberOfArguments(bPERSIST))]
       ELSE LET key == cmd.args[1].String
                r == GetRead(store.shards[ShardOf(key)], key)
                b == [Begin(c, cmd) EXCEPT !.key = key]
            IN /\ mu[ShardOf(key)] = 0
               /\ conn' = [conn EXCEPT ![c] =
                    IF ~r.ok \/ ~r.hasExp THEN Return(b, MakeInteger(0))
                    ELSE [b EXCEPT !.pc = "persist_lock"]]
    /\ UNCHANGED <<now, cfg, menu, sock, store, mu, gc, tickC, stopGC, aof, rdb, sd>>

\* MapStorage.Persist: the exclusive section; the early return keeps the lock
PersistLock(c) ==
    LET key == conn[c].key
        s == ShardOf(key)
        r == PersistLocked(store.shards[s], key)
    IN /\ conn[c].pc = "persist_lock"
       /\ mu[s] = 0
       /\ store' = SetShard(s, r.m)
       /\ mu' = IF r.leak THEN [mu EXCEPT ![s] = c] ELSE mu
       /\ conn' = [conn EXCEPT ![c] = Return(@, MakeInteger(r.ret))]
       /\ UNCHANGED <<now, cfg, menu, sock, issued, gc, tickC, stopGC, aof, rdb, sd>>

\* del: the arity check; the loop over the keys is DelStep
del(c, cmd) ==
    /\ CanCall(c, cmd, bDEL)
    /\ conn' = [conn EXCEPT ![c] =
                  IF Len(cmd.args) < 1
                  THEN Return(Begin(c, cmd), MakeErrorWrongNumberOfArguments(bDEL))
                  ELSE [Begin(c, cmd) EXCEPT !.pc = "del_loop", !.i = 1]]
    /\ UNCHANGED <<now, cfg, menu, sock, store, mu, gc, tickC, stopGC, aof, rdb, sd>>

\* del: one MapStorage.Delete of the loop, and the reply after the last
DelStep(c) ==
    LET key == conn[c].args[conn[c].i].String
        s == ShardOf(key)
        r == MapDelete(store.shards[s], key)
        wasDeleted == conn[c].cnt + (IF r.ok THEN 1 ELSE 0)
    IN /\ conn[c].pc = "del_loop"
       /\ mu[s] = 0
       /\ store' = SetShard(s, r.m)
       /\ conn' = [conn EXCEPT ![c] =
                     IF conn[c].i = Len(conn[c].args)
                     THEN Return([@ EXCEPT !.cnt = wasDeleted], MakeInteger(wasDeleted))
                     ELSE [@ EXCEPT !.cnt = wasDeleted, !.i = @ + 1]]
       /\ UNCHANGED <<now, cfg, menu, sock, issued, mu, gc, tickC, stopGC, aof, rdb, sd>>

SetError(msg, options) == [kind |-> "error", res |-> MakeError(msg), options |-> options]

RECURSIVE setOptions(_, _, _, _, _)
\* set: the option loop from args[i] on; t is the clock time.Until reads.
\* kind "store": call Set and reply by its result; "past": the EXAT/PXAT
\* branch that calls Set at once and replies OK; "error": the reply is res
setOptions(args, i, options, hasTTL, t) ==
    IF i > Len(args) THEN [kind |-> "store", res |-> ZeroValue, options |-> options]
    ELSE LET arg == ToUpper(args[i].String) IN
      CASE arg = bNX ->
             IF options.XX THEN SetError(bNXwithXX, options)
             ELSE setOptions(args, i + 1, [options EXCEPT !.NX = TRUE], hasTTL, t)
        [] arg = bXX ->
             IF options.NX THEN SetError(bXXwithNX, options)
             ELSE setOptions(args, i + 1, [options EXCEPT !.XX = TRUE], hasTTL, t)
        [] arg = bKEEPTTL ->
             IF hasTTL THEN SetError(bTTLTwice, options)
             ELSE setOptions(args, i + 1, [options EXCEPT !.KeepTTL = TRUE], TRUE, t)
        [] arg \in {bEX, bPX, bEXAT, bPXAT} ->
             IF hasTTL THEN SetError(bTTLTwice, options)
             ELSE IF i + 1 > Len(args) THEN SetError(bSyntaxError, options)
             ELSE LET valTTL == ParseInt(args[i + 1].String)
                      ttlDuration ==
                          CASE arg = bEX -> Wrap(valTTL.v * Second)
                            [] arg = bPX -> Wrap(valTTL.v * Millisecond)
                            [] arg = bEXAT -> Saturate(valTTL.v * Second - t)
                            [] OTHER -> Saturate(valTTL.v * Millisecond - t)
                  IN IF ~valTTL.ok THEN SetError(bNotInteger, options)
                     ELSE IF ttlDuration <= 0 /\ arg \in {bEXAT, bPXAT}
                     THEN [kind |-> "past", res |-> ZeroValue,
                           options |-> [options EXCEPT !.TTL = 1]]
                     ELSE setOptions(args, i + 2, [options EXCEPT !.TTL = ttlDuration],
                                     TRUE, t)
        [] OTHER -> SetError(bSyntaxErrorWith \o arg, options)

\* set, up to the call of Storage.Set
set(c, cmd) ==
    /\ CanCall(c, cmd, bSET)
    /\ conn' = [conn EXCEPT ![c] =
          IF Len(cmd.args) < 2
          THEN Return(Begin(c, cmd), MakeErrorWrongNumberOfArguments(bSET))
          ELSE LET p == setOptions(cmd.args, 3, SetOptions(0, FALSE, FALSE, FALSE),
                                   FALSE, now)
               IN IF p.kind = "error" THEN Return(Begin(c, cmd), p.res)
                  ELSE [Begin(c, cmd) EXCEPT !.pc = "set_store",
                                             !.key = cmd.args[1].String,
                                             !.value = cmd.args[2].String,
                                             !.options = p.options,
                                             !.past = (p.kind = "past")]]
    /\ UNCHANGED <<now, cfg, menu, sock, store, mu, gc, tickC, stopGC, aof, rdb, sd>>

\* set: MapStorage.Set and the reply
SetStore(c) ==
    LET key == conn[c].key
        s == ShardOf(key)
        r == MapSet(store.shards[s], key, conn[c].value, conn[c].options, now)
    IN /\ conn[c].pc = "set_store"
       /\ mu[s] = 0
       /\ store' = SetShard(s, r.m)
       /\ conn' = [conn EXCEPT ![c] =
                     Return(@, IF conn[c].past \/ r.ok THEN MakeSimpleString(bOK)
                               ELSE MakeNilBulkString)]
       /\ UNCHANGED <<now, cfg, menu, sock, issued, mu, gc, tickC, stopGC, aof, rdb, sd>>

\* ping
ping(c, cmd) ==
    /\ CanCall(c, cmd, bPING)
    /\ conn' = [conn EXCEPT ![c] =
          Return(Begin(c, cmd),
                 IF Len(cmd.args) > 1 THEN MakeErrorWrongNumberOfArguments(bPING)
                 ELSE IF Len(cmd.args) = 1 THEN MakeBulkString(cmd.args[1].String)
                 ELSE MakeSimpleString(bPONG))]
    /\ UNCHANGED <<now, cfg, menu, sock, store, mu, gc, tickC, stopGC, aof, rdb, sd>>

\* cmd, the handler of COMMAND
cmdCOMMAND(c, frame) ==
    /\ CanCall(c, frame, bCOMMAND)
    /\ LET subCmd == ToUpper(frame.args[1].String)
           details(info) ==
               MakeArray(<<MakeBulkString(info.name),
                           MakeInteger(info.arity),
                           MakeArray([i \in 1..Len(info.flags) |->
                                         MakeSimpleString(info.flags[i])]),
                           MakeInteger(info.firstKey),
                           MakeInteger(info.lastKey),
                           MakeInteger(info.step)>>)
       IN conn' = [conn EXCEPT ![c] =
             Return(Begin(c, frame),
                    IF Len(frame.args) > 0
                    THEN (IF subCmd = bCOUNT THEN MakeInteger(Len(getCommandRegistry))
                          ELSE IF subCmd = bDOCS THEN MakeSimpleString(bOK)
                          ELSE MakeErrorWrongNumberOfArguments(bCOMMAND))
                    ELSE MakeArray([i \in 1..Len(getCommandRegistry) |->
                                       details(getCommandRegistry[i])]))]
    /\ UNCHANGED <<now, cfg, menu, sock, store, mu, gc, tickC, stopGC, aof, rdb, sd>>

\* Engine.Execute: the name is not in e.commands
Unknown(c, cmd) ==
    /\ CanCall(c, cmd, ToUpper(cmd.name))
    /\ ToUpper(cmd.name) \notin Registered
    /\ conn' = [conn EXCEPT ![c] =
          Return(Begin(c, cmd), MakeError(bWrongCommand \o ToUpper(cmd.name)))]
    /\ UNCHANGED <<now, cfg, menu, sock, store, mu, gc, tickC, stopGC, aof, rdb, sd>>

\* a test that takes every command that names a key for a write
isWriteCommandKeyed(name) == name \in {bSET, bDEL, bPERSIST, bGET, bTTL, bPTTL}

\* isWriteCommand
isWriteCommand(name) == name \in {bSET, bDEL, bPERSIST}

\* Engine.Execute after the handler returned: a command that writes and whose
\* reply is no error is serialized and passed to AOF.Write, which blocks
\* while the channel is full
ExecuteTail(c) ==
    /\ conn[c].pc = "tail"
    /\ IF cfg.AOF.Enabled /\ conn[c].res.Type # TypeError /\ isWriteCommand(conn[c].name)
       THEN LET payload == SerializeCommand(conn[c].name, conn[c].args)
            IN /\ Len(aof.commandsChan) < ChanCap
               /\ aof' = [aof EXCEPT !.commandsChan = Append(@, payload),
                                     !.sent = @ + 1]
               /\ conn' = [conn EXCEPT ![c] =
                             [@ EXCEPT !.pc = "reply", !.enq = <<payload>>]]
       ELSE /\ aof' = aof
            /\ conn' = [conn EXCEPT ![c] = [@ EXCEPT !.pc = "reply"]]
    /\ UNCHANGED <<now, cfg, menu, sock, issued, store, mu, gc, tickC, stopGC, rdb, sd>>

\* a Send that puts the reply ahead of the replies written before
PeerSendAhead(sk, v) ==
    IF sk.traced THEN [sk EXCEPT !.out = EncoderWrite(v) \o @] ELSE sk

\* Peer.Send: Encoder.Write serializes the value and flushes the writer
PeerSend(sk, v) ==
    IF sk.traced THEN [sk EXCEPT !.out = @ \o EncoderWrite(v)] ELSE sk

\* handleConnection: Execute returned and the reply is sent; Encoder.Write
\* has flushed, so peer.Flush finds nothing left to write
Reply(c) ==
    /\ conn[c].pc = "reply"
    /\ conn' = [conn EXCEPT ![c] = IdleConn]
    /\ sock' = [sock EXCEPT ![c] = PeerSend(sock[c], conn[c].res)]
    /\ UNCHANGED <<now, cfg, menu, issued, store, mu, gc, tickC, stopGC, aof, rdb, sd>>

\* handleConnection: peer.ReadCommand on a socket whose bytes are followed.
\* An error ends the connection, a value that is not an array or an array
\* without elements is passed over, a panic of the Decoder ends the process,
\* and any other array is the frame Execute is called with
ReadCommand(c) ==
    LET sk == sock[c]
        r == DecoderRead(sk.in, sk.pos)
        v == r.val
    IN /\ conn[c].pc = "idle"
       /\ sk.traced
       /\ sk.open
       /\ sd = "running"
       /\ sk.cmds = issued
       /\ CASE r.kind = "panic" ->
                 /\ sd' = "crashed"
                 /\ UNCHANGED <<sock, menu>>
            [] r.kind \in {"eof", "err"} ->
                 /\ sock' = [sock EXCEPT ![c].open = FALSE]
                 /\ UNCHANGED <<sd, menu>>
            [] r.kind = "ok" /\ (v.Type # TypeArray \/ Len(v.Array) = 0) ->
                 /\ sock' = [sock EXCEPT ![c].pos = r.pos]
                 /\ UNCHANGED <<sd, menu>>
            [] OTHER ->
                 /\ sock' = [sock EXCEPT ![c].pos = r.pos, ![c].cmds = @ + 1]
                 /\ menu' = [menu EXCEPT ![c] =
                                {[name |-> v.Array[1].String, args |-> Tail(v.Array)]}]
                 /\ UNCHANGED sd
       /\ UNCHANGED <<now, cfg, issued, store, mu, conn, gc, tickC, stopGC, aof, rdb>>

(***************************************************************************)
(* The hash operations of ShardedMapStorage, called on the Storage          *)
(* interface: each holds the lock of the key's shard from its first         *)
(* statement to its return.                                                 *)
(***************************************************************************)
HashCalled(s) ==
    /\ issued < MaxCmds
    /\ issued' = issued + 1
    /\ mu[s] = 0
    /\ UNCHANGED <<now, cfg, menu, sock, mu, conn, gc, tickC, stopGC, aof, rdb, sd>>

HSet(key, fields) ==
    /\ HashCalled(ShardOf(key))
    /\ store' = SetShard(ShardOf(key), MapHSet(store.shards[ShardOf(key)], key, fields).m)

HGet(key, field) ==
    /\ HashCalled(ShardOf(key))
    /\ store' = SetShard(ShardOf(key), MapHGet(store.shards[ShardOf(key)], key, field, now).m)

HGetAll(key) ==
    /\ HashCalled(ShardOf(key))
    /\ store' = SetShard(ShardOf(key), MapHGetAll(store.shards[ShardOf(key)], key, now).m)

HDel(key, fields) ==
    /\ HashCalled(ShardOf(key))
    /\ store' = SetShard(ShardOf(key), MapHDel(store.shards[ShardOf(key)], key, fields).m)

HExists(key, field) ==
    /\ HashCalled(ShardOf(key))
    /\ store' = SetShard(ShardOf(key), MapHExists(store.shards[ShardOf(key)], key, field, now).m)

(***************************************************************************)
(* AOF.listen, AOF.Close and Engine.Shutdown.                              *)
(***************************************************************************)
\* listen up to the for loop: with fsyncNo it returns at once
ListenStart ==
    /\ aof.listen = "start"
    /\ aof' = [aof EXCEPT !.listen = IF aof.strategy = fsyncNo THEN "exited" ELSE "loop"]
    /\ UNCHANGED <<now, cfg, menu, sock, issued, store, mu, conn, gc, tickC, stopGC, rdb, sd>>

\* listen: case p, ok := <-a.commandsChan
ListenRecv ==
    /\ aof.listen = "loop"
    /\ aof.commandsChan # <<>>
    /\ LET a == [aof EXCEPT !.commandsChan = Tail(@),
                            !.writer = Append(@, Head(aof.commandsChan))]
       IN aof' = IF aof.strategy = fsyncAlways THEN Sync(flush(a)) ELSE a
    /\ UNCHANGED <<now, cfg, menu, sock, issued, store, mu, conn, gc, tickC, stopGC, rdb, sd>>

\* the one-second ticker of listen, stopped at once unless fsyncEverySec
ListenTickerFire ==
    /\ aof.listen = "loop"
    /\ aof.strategy = fsyncEverySec
    /\ aof.tickC = 0
    /\ aof' = [aof EXCEPT !.tickC = 1]
    /\ UNCHANGED <<now, cfg, menu, sock, issued, store, mu, conn, gc, tickC, stopGC, rdb, sd>>

\* listen: case <-ticker.C
ListenTick ==
    /\ aof.listen = "loop"
    /\ aof.tickC = 1
    /\ LET a == [aof EXCEPT !.tickC = 0]
       IN aof' = IF aof.strategy = fsyncEverySec THEN Sync(flush(a)) ELSE a
    /\ UNCHANGED <<now, cfg, menu, sock, issued, store, mu, conn, gc, tickC, stopGC, rdb, sd>>

\* listen: case <-a.stopChan, which select may take whatever the channel holds
ListenStop ==
    /\ aof.listen = "loop"
    /\ aof.stopChan
    /\ aof' = [Sync(flush(aof)) EXCEPT !.listen = "exited"]
    /\ UNCHANGED <<now, cfg, menu, sock, issued, store, mu, conn, gc, tickC, stopGC, rdb, sd>>

\* Engine.Shutdown: e.close(), then AOF.Close up to wg.Wait
Shutdown ==
    /\ sd = "running"
    /\ stopGC' = (stopGC \/ cfg.GC.Enabled)
    /\ IF cfg.AOF.Enabled
       THEN /\ aof' = [aof EXCEPT !.stopChan = TRUE, !.sentAtClose = aof.sent]
            /\ sd' = "closing"
       ELSE /\ aof' = aof
            /\ sd' = "done"
    /\ UNCHANGED <<now, cfg, menu, sock, issued, store, mu, conn, gc, tickC, rdb>>

\* AOF.Close: wg.Wait returned, file.Close
CloseFile ==
    /\ sd = "closing"
    /\ aof.listen = "exited"
    /\ aof' = [aof EXCEPT !.closed = TRUE]
    /\ sd' = "done"
    /\ UNCHANGED <<now, cfg, menu, sock, issued, store, mu, conn, gc, tickC, stopGC, rdb>>

(***************************************************************************)
(* RDB.Save, and the handlers and the loop that call it.                   *)
(***************************************************************************)
FreeSavers == {t \in Savers : rdb.task[t].pc = "free"}
NextSaver == CHOOSE t \in FreeSavers : \A u \in FreeSavers : t <= u

\* a call of RDB.Save begins, on behalf of connection by (0: a goroutine)
StartSave(by) == [rdb EXCEPT !.task[NextSaver] = [FreeTask EXCEPT !.pc = "create", !.by = by]]

\* the handler of SAVE, up to the call of RDB.Save
save(c, frame) ==
    /\ CanCall(c, frame, bSAVE)
    /\ IF ~cfg.RDB.Enabled
       THEN /\ conn' = [conn EXCEPT ![c] = Return(Begin(c, frame), MakeError(bRDBDisabled))]
            /\ rdb' = rdb
       ELSE /\ FreeSavers # {}
            /\ rdb.up
            /\ conn' = [conn EXCEPT ![c] =
                          [Begin(c, frame) EXCEPT !.pc = "save_wait", !.i = NextSaver]]
            /\ rdb' = StartSave(c)
    /\ UNCHANGED <<now, cfg, menu, sock, store, mu, gc, tickC, stopGC, aof, sd>>

\* the handler of SAVE: RDB.Save returned
SaveReturn(c) ==
    /\ conn[c].pc = "save_wait"
    /\ rdb.task[conn[c].i].pc \in {"done", "failed"}
    /\ conn' = [conn EXCEPT ![c] =
                  Return(@, IF rdb.task[conn[c].i].pc = "failed"
                            THEN MakeError(bIOError)
                            ELSE MakeSimpleString(bOK))]
    /\ UNCHANGED <<now, cfg, menu, sock, issued, store, mu, gc, tickC, stopGC, aof, rdb, sd>>

\* the handler of BGSAVE: the save runs in a goroutine of its own
bgsave(c, frame) ==
    /\ CanCall(c, frame, bBGSAVE)
    /\ IF ~cfg.RDB.Enabled
       THEN /\ conn' = [conn EXCEPT ![c] = Return(Begin(c, frame), MakeError(bRDBDisabled))]
            /\ rdb' = rdb
       ELSE /\ FreeSavers # {}
            /\ rdb.up
            /\ conn' = [conn EXCEPT ![c] =
                          Return(Begin(c, frame), MakeSimpleString(bBgStarted))]
            /\ rdb' = StartSave(0)
    /\ UNCHANGED <<now, cfg, menu, sock, store, mu, gc, tickC, stopGC, aof, sd>>

\* the ticker of startAutoSave sends unless a tick is waiting
AutoTickerFire ==
    /\ rdb.auto = "select"
    /\ rdb.tickC = 0
    /\ rdb' = [rdb EXCEPT !.tickC = 1]
    /\ UNCHANGED <<now, cfg, menu, sock, issued, store, mu, conn, gc, tickC, stopGC, aof, sd>>

\* startAutoSave: case <-ticker.C starts a save in a goroutine of its own
AutoSaveTick ==
    /\ rdb.auto = "select"
    /\ rdb.tickC = 1
    /\ rdb.up
    /\ FreeSavers # {}
    /\ rdb' = [StartSave(0) EXCEPT !.tickC = 0]
    /\ UNCHANGED <<now, cfg, menu, sock, issued, store, mu, conn, gc, tickC, stopGC, aof, sd>>

\* startAutoSave: case <-e.stopGC
AutoSaveStop ==
    /\ rdb.auto = "select"
    /\ stopGC
    /\ rdb' = [rdb EXCEPT !.auto = "stopped"]
    /\ UNCHANGED <<now, cfg, menu, sock, issued, store, mu, conn, gc, tickC, stopGC, aof, sd>>

\* RDB.Save: os.Create(tmpFile) truncates the file when it exists; the magic
\* goes to the writer
SaveCreate(t) ==
    /\ rdb.up
    /\ rdb.task[t].pc = "create"
    /\ LET ino == rdb.names[tmpFile]
           new == Len(rdb.inodes) + 1
       IN rdb' =
            IF ino = 0
            THEN [rdb EXCEPT !.names[tmpFile] = new,
                             !.inodes = Append(@, [bytes |-> <<>>, durable |-> <<>>]),
                             !.task[t] = [@ EXCEPT !.pc = "snapshot", !.f = new,
                                                   !.writer = bMagic]]
            ELSE [rdb EXCEPT !.inodes[ino].bytes = <<>>,
                             !.task[t] = [@ EXCEPT !.pc = "snapshot", !.f = ino,
                                                   !.writer = bMagic]]
    /\ UNCHANGED <<now, cfg, menu, sock, issued, store, mu, conn, gc, tickC, stopGC, aof, sd>>

\* a Snapshot of the next shard that stops one record before the end of the
\* map iteration
SaveSnapshotShort(t) ==
    LET s == rdb.task[t].shard
        m == store.shards[s]
    IN /\ rdb.up
       /\ rdb.task[t].pc = "snapshot"
       /\ mu[s] = 0
       /\ \E order \in Orders(DOMAIN m.data) :
             LET short == SubSeq(order, 1, Len(order) - 1)
             IN rdb' = [rdb EXCEPT
                  !.task[t] = [@ EXCEPT !.writer = @ \o MapSnapshot(m, short, now),
                                        !.shard = s + 1,
                                        !.pc = IF s + 1 \in Shards THEN "snapshot"
                                               ELSE "flush"],
                  !.outputs = IF s + 1 \in Shards THEN @
                              ELSE @ \cup {rdb.task[t].writer \o MapSnapshot(m, short, now)}]
       /\ UNCHANGED <<now, cfg, menu, sock, issued, store, mu, conn, gc, tickC, stopGC, aof, sd>>

\* ShardedMapStorage.Snapshot: MapStorage.Snapshot of the next shard, under
\* its shared lock
SaveSnapshot(t) ==
    LET s == rdb.task[t].shard
        m == store.shards[s]
    IN /\ rdb.up
       /\ rdb.task[t].pc = "snapshot"
       /\ mu[s] = 0
       /\ \E order \in Orders(DOMAIN m.data) :
             rdb' = [rdb EXCEPT
               !.task[t] = [@ EXCEPT !.writer = @ \o MapSnapshot(m, order, now),
                                     !.shard = s + 1,
                                     !.pc = IF s + 1 \in Shards THEN "snapshot"
                                            ELSE "flush"],
               !.outputs = IF s + 1 \in Shards THEN @
                           ELSE @ \cup {rdb.task[t].writer \o MapSnapshot(m, order, now)}]
       /\ UNCHANGED <<now, cfg, menu, sock, issued, store, mu, conn, gc, tickC, stopGC, aof, sd>>

\* RDB.Save: writer.Flush writes the buffer through the descriptor, whose
\* offset is 0
SaveFlush(t) ==
    /\ rdb.up
    /\ rdb.task[t].pc = "flush"
    /\ rdb' = [rdb EXCEPT !.inodes[rdb.task[t].f].bytes = WriteAt0(@, rdb.task[t].writer),
                          !.task[t].pc = "sync"]
    /\ UNCHANGED <<now, cfg, menu, sock, issued, store, mu, conn, gc, tickC, stopGC, aof, sd>>

\* RDB.Save: f.Sync, then f.Close
SaveSync(t) ==
    /\ rdb.up
    /\ rdb.task[t].pc = "sync"
    /\ rdb' = [rdb EXCEPT !.inodes[rdb.task[t].f].durable = rdb.inodes[rdb.task[t].f].bytes,
                          !.task[t].pc = "rename"]
    /\ UNCHANGED <<now, cfg, menu, sock, issued, store, mu, conn, gc, tickC, stopGC, aof, sd>>

\* RDB.Save: os.Rename(tmpFile, r.filename), which fails when no file has
\* the name tmpFile
SaveRename(t) ==
    /\ rdb.up
    /\ rdb.task[t].pc = "rename"
    /\ rdb' =
         IF rdb.names[tmpFile] = 0 THEN [rdb EXCEPT !.task[t].pc = "failed"]
         ELSE [rdb EXCEPT !.names = [n \in DOMAIN rdb.names |->
                                        IF n = filename THEN rdb.names[tmpFile] ELSE 0],
                          !.installed = [exists |-> TRUE, bytes |-> rdb.task[t].writer],
                          !.task[t].pc = "done"]
    /\ UNCHANGED <<now, cfg, menu, sock, issued, store, mu, conn, gc, tickC, stopGC, aof, sd>>

\* RDB.Save: a system call returns an error and Save returns it; a failing
\* Flush may have written the first n bytes
SaveFail(t) ==
    /\ rdb.up
    /\ rdb.task[t].pc \in {"create", "flush", "sync", "rename"}
    /\ IF rdb.task[t].pc = "flush"
       THEN \E n \in 0..(Len(rdb.task[t].writer) - 1) :
              rdb' = [rdb EXCEPT
                !.inodes[rdb.task[t].f].bytes =
                    WriteAt0(@, SubSeq(rdb.task[t].writer, 1, n)),
                !.task[t].pc = "failed"]
       ELSE rdb' = [rdb EXCEPT !.task[t].pc = "failed"]
    /\ UNCHANGED <<now, cfg, menu, sock, issued, store, mu, conn, gc, tickC, stopGC, aof, sd>>

\* the machine stops: every file keeps its durable bytes, and may or may not
\* keep what was written since
Crash ==
    /\ rdb.up
    /\ cfg.RDB.Enabled
    /\ \E lost \in SUBSET DOMAIN rdb.inodes :
          rdb' = [rdb EXCEPT
            !.up = FALSE,
            !.inodes = [i \in DOMAIN rdb.inodes |->
                          IF i \in lost
                          THEN [rdb.inodes[i] EXCEPT !.bytes = rdb.inodes[i].durable]
                          ELSE rdb.inodes[i]]]
    /\ UNCHANGED <<now, cfg, menu, sock, issued, store, mu, conn, gc, tickC, stopGC, aof, sd>>

(***************************************************************************)
(* Engine.restoreAOF: NewEngine replays the log before the server accepts  *)
(* a connection, so each handler runs to its end with no other goroutine.  *)
\* the content of the file r.filename names, and whether there is one
FileExists == rdb.names[filename] # 0
FileBytes == IF FileExists THEN rdb.inodes[rdb.names[filename]].bytes ELSE <<>>

\* no command and no save is under way
Stopped ==
    /\ \A c \in Conns : conn[c].pc = "idle"
    /\ \A t \in Savers : rdb.task[t].pc \in {"free", "done", "failed"}

\* the file loses its end: it is cut after n bytes
Truncate ==
    /\ Stopped
    /\ FileExists
    /\ rdb.load = [kind |-> "none", records |-> 0, altered |-> FALSE]
    /\ \E n \in 0..(Len(FileBytes) - 1) :
          rdb' = [rdb EXCEPT !.inodes[rdb.names[filename]].bytes = SubSeq(@, 1, n),
                             !.load.altered = TRUE]
    /\ UNCHANGED <<now, cfg, menu, sock, issued, store, mu, conn, gc, tickC, stopGC, aof, sd>>

\* the file is one of another format: its first byte is not the magic's
OtherMagic ==
    /\ Stopped
    /\ FileExists
    /\ rdb.load = [kind |-> "none", records |-> 0, altered |-> FALSE]
    /\ rdb' = [rdb EXCEPT !.inodes[rdb.names[filename]].bytes = <<0>> \o Tail(@),
                          !.load.altered = TRUE]
    /\ UNCHANGED <<now, cfg, menu, sock, issued, store, mu, conn, gc, tickC, stopGC, aof, sd>>

\* the key of the record of another type
kForeign == <<102>>

\* the file is one that holds a record of a type other than String, as
\* MapStorage.Snapshot writes it: the header and the key, no value
ForeignRecord ==
    /\ Stopped
    /\ FileExists
    /\ rdb.load = [kind |-> "none", records |-> 0, altered |-> FALSE]
    /\ \E type \in {TypeList, TypeSet, TypeZSet} :
          rdb' = [rdb EXCEPT
            !.inodes[rdb.names[filename]].bytes =
               @ \o SnapshotRecord([data |-> (kForeign :> Entity(type, nilValue)),
                                    expires |-> <<>>], kForeign, now),
            !.load.altered = TRUE]
    /\ UNCHANGED <<now, cfg, menu, sock, issued, store, mu, conn, gc, tickC, stopGC, aof, sd>>

\* the server is stopped and started again with n shards: main makes the
\* store with NewShardedMapStorage and NewEngine calls RDB.Load on it, logs
\* its error and goes on
Restart(n) ==
    LET fresh == [shards |-> NewShardedMapStorage(n).shards,
                  shardMask |-> NewShardedMapStorage(n).shardMask]
        r == RDBLoad(fresh, FileExists, FileBytes, now)
    IN /\ Stopped
       /\ cfg.RDB.Enabled /\ ~cfg.AOF.Enabled
       /\ rdb.load.kind = "none"
       /\ NewShardedMapStorage(n).ok
       /\ store' = r.st
       /\ mu' = [s \in DOMAIN fresh.shards |-> 0]
       /\ cfg' = [cfg EXCEPT !.Storage.Shards = n]
       /\ gc' = [gc EXCEPT !.ratios = [s \in DOMAIN fresh.shards |->
                                         [expired |-> 0, checked |-> 0]]]
       /\ rdb' = [rdb EXCEPT !.task = [t \in Savers |-> FreeTask],
                             !.load.kind = r.kind,
                             !.load.records = r.n]
       /\ menu' = [c \in Conns |-> {}]
       /\ UNCHANGED <<now, sock, issued, conn, tickC, stopGC, aof, sd>>

(***************************************************************************)
RECURSIVE Flatten(_)
\* the bytes of a file that holds the payloads ps
Flatten(ps) == IF ps = <<>> THEN <<>> ELSE Head(ps) \o Flatten(Tail(ps))

RECURSIVE LoadFrom(_, _, _)
\* AOF.Load: the values Decoder.Read yields up to io.EOF; any other error
\* gives no command at all
LoadFrom(s, pos, commands) ==
    LET r == DecoderRead(s, pos)
    IN IF r.kind = "ok" THEN LoadFrom(s, r.pos, Append(commands, r.val))
       ELSE IF r.kind = "eof" THEN [ok |-> TRUE, commands |-> commands]
       ELSE [ok |-> FALSE, commands |-> <<>>]

WithShard(st, s, m) == [st EXCEPT !.shards[s] = m]

\* set, run to its end at time t
RunSet(st, args, t) ==
    IF Len(args) < 2 THEN st
    ELSE LET p == setOptions(args, 3, SetOptions(0, FALSE, FALSE, FALSE), FALSE, t)
             key == args[1].String
             s == getShardIndex(key, st.shardMask)
         IN IF p.kind = "error" THEN st
            ELSE WithShard(st, s, MapSet(st.shards[s], key, args[2].String,
                                         p.options, t).m)

RECURSIVE RunDel(_, _, _)
\* del, run to its end: the keys from args[i] on
RunDel(st, args, i) ==
    IF i > Len(args) THEN st
    ELSE LET key == args[i].String
             s == getShardIndex(key, st.shardMask)
         IN RunDel(WithShard(st, s, MapDelete(st.shards[s], key).m), args, i + 1)

\* persist, run to its end
RunPersist(st, args) ==
    IF Len(args) # 1 THEN st
    ELSE LET key == args[1].String
             s == getShardIndex(key, st.shardMask)
             r == GetRead(st.shards[s], key)
         IN IF ~r.ok \/ ~r.hasExp THEN st
            ELSE WithShard(st, s, PersistLocked(st.shards[s], key).m)

RECURSIVE restoreAOF(_, _, _, _)
\* restoreAOF: the loop over cmds from cmds[i] on.  A log written by
\* Engine.Execute names no command but SET, DEL and PERSIST.
restoreAOF(st, cmds, i, t) ==
    IF i > Len(cmds) THEN st
    ELSE LET cmdVal == cmds[i]
         IN IF cmdVal.Type # TypeArray \/ Len(cmdVal.Array) = 0
            THEN restoreAOF(st, cmds, i + 1, t)
            ELSE LET name == ToUpper(cmdVal.Array[1].String)
                     args == Tail(cmdVal.Array)
                     st1 == CASE name = bSET -> RunSet(st, args, t)
                              [] name = bDEL -> RunDel(st, args, 1)
                              [] name = bPERSIST -> RunPersist(st, args)
                              [] OTHER -> st
                 IN restoreAOF(st1, cmds, i + 1, t)

\* NewEngine at time t on an empty store of n shards and the log file `log`
Restarted(n, log, t) ==
    LET fresh == [shards |-> NewShardedMapStorage(n).shards,
                  shardMask |-> NewShardedMapStorage(n).shardMask]
        l == LoadFrom(Flatten(log), 1, <<>>)
    IN IF l.ok THEN restoreAOF(fresh, l.commands, 1, t) ELSE fresh

\* what a client reads at key at time t: the value in a one-element
\* sequence, or nothing
Visible(st, key, t) ==
    LET m == st.shards[getShardIndex(key, st.shardMask)]
    IN IF key \in DOMAIN m.data
          /\ ~(key \in DOMAIN m.expires /\ Expired(t, m.expires[key]))
       THEN <<m.data[key].Value>>
       ELSE <<>>

(***************************************************************************)
(* The clock and the reaper.                                               *)
(***************************************************************************)
Tick ==
    /\ now < MaxTime
    /\ now' = now + 1
    /\ UNCHANGED <<cfg, menu, sock, issued, store, mu, conn, gc, tickC, stopGC, aof, rdb, sd>>

\* the runtime sends on ticker.C unless a tick is already waiting there;
\* gc.fired tells how many ticks were sent since stopGC was closed: none, one,
\* or more than one
TickerFire ==
    /\ gc.pc \in {"select", "sweep"}
    /\ tickC = 0
    /\ tickC' = 1
    /\ gc' = [gc EXCEPT !.fired = IF ~stopGC THEN 0 ELSE IF @ = 0 THEN 1 ELSE 2]
    /\ UNCHANGED <<now, cfg, menu, sock, issued, store, mu, conn, stopGC, aof, rdb, sd>>

\* startGCLoop: case <-ticker.C, and ShardedMapStorage.DeleteExpired
\* starting one goroutine per shard
GCSweepStart ==
    /\ gc.pc = "select"
    /\ tickC = 1
    /\ tickC' = 0
    /\ gc' = [gc EXCEPT !.pc = "sweep", !.pending = Shards,
                        !.ratios = [s \in Shards |-> [expired |-> 0, checked |-> 0]]]
    /\ UNCHANGED <<now, cfg, menu, sock, issued, store, mu, conn, stopGC, aof, rdb, sd>>

\* one goroutine of ShardedMapStorage.DeleteExpired: MapStorage.DeleteExpired
\* on its shard, over the entries the map iteration happens to yield
ShardSweep(s) ==
    /\ gc.pc = "sweep"
    /\ s \in gc.pending
    /\ mu[s] = 0
    /\ \E sample \in SUBSET DOMAIN store.shards[s].expires :
          /\ Cardinality(sample) = Inspected(store.shards[s], cfg.GC.SamplesPerCheck)
          /\ LET r == MapDeleteExpired(store.shards[s], sample, now)
             IN /\ store' = SetShard(s, r.m)
                /\ gc' = [gc EXCEPT !.pending = @ \ {s},
                                    !.ratios[s] = [expired |-> r.expired,
                                                   checked |-> r.checked]]
    /\ UNCHANGED <<now, cfg, menu, sock, issued, mu, conn, tickC, stopGC, aof, rdb, sd>>

RECURSIVE ProductOfChecked(_, _)
ProductOfChecked(ratios, S) ==
    IF S = {} THEN 1
    ELSE LET s == CHOOSE x \in S : TRUE
         IN (IF ratios[s].checked = 0 THEN 1 ELSE ratios[s].checked)
            * ProductOfChecked(ratios, S \ {s})

RECURSIVE SumOfRatios(_, _, _)
\* the sum of expired/checked over the shards S, as a multiple of 1/den
SumOfRatios(ratios, S, den) ==
    IF S = {} THEN 0
    ELSE LET s == CHOOSE x \in S : TRUE
         IN (IF ratios[s].checked = 0 THEN 0
             ELSE ratios[s].expired * (den \div ratios[s].checked))
            + SumOfRatios(ratios, S \ {s}, den)

\* ShardedMapStorage.DeleteExpired: totalRatio / float64(shardCount), as the
\* fraction num/den
MeanRatio(ratios) ==
    LET d == ProductOfChecked(ratios, DOMAIN ratios)
    IN [num |-> SumOfRatios(ratios, DOMAIN ratios, d),
        den |-> d * Cardinality(DOMAIN ratios)]

\* startGCLoop: stats < e.cfg.GC.MatchThreshold, the threshold a fraction
BelowThreshold(stats, threshold) ==
    stats.num * threshold.den < threshold.num * stats.den

\* startGCLoop: case <-e.stopGC
GCStop ==
    /\ gc.pc = "select"
    /\ stopGC
    /\ gc' = [gc EXCEPT !.pc = "stopped"]
    /\ UNCHANGED <<now, cfg, menu, sock, issued, store, mu, conn, tickC, stopGC, aof, rdb, sd>>

\* startGCLoop: wg.Wait returned; the break leaves the select, in both
\* cases the for loop goes back to the select
GCSweepDone ==
    /\ gc.pc = "sweep"
    /\ gc.pending = {}
    /\ gc' = [gc EXCEPT !.pc = "select", !.stats = MeanRatio(gc.ratios),
                        !.ratios = [s \in Shards |-> [expired |-> 0, checked |-> 0]]]
    /\ UNCHANGED <<now, cfg, menu, sock, issued, store, mu, conn, tickC, stopGC, aof, rdb, sd>>

(***************************************************************************)
(* Scenarios.                                                              *)
(***************************************************************************)
kA == <<97>>
kB == <<98>>
vX == <<120>>
vY == <<121>>
d1 == <<49>>

Threshold(num, den) == [num |-> num, den |-> den]

Config(shards, gcOn, samples, threshold, aofOn, fsync, rdbOn, interval) ==
    [Storage |-> [Shards |-> shards],
     GC |-> [Enabled |-> gcOn, SamplesPerCheck |-> samples, MatchThreshold |-> threshold],
     AOF |-> [Enabled |-> aofOn, Fsync |-> fsync],
     RDB |-> [Enabled |-> rdbOn, Interval |-> interval]]

\* NewEngine, but for the store it is given: the reaper runs when
\* cfg.GC.Enabled, the log and the snapshot file when they are enabled
InitRest(config) ==
    /\ cfg = config
    /\ mu = [s \in DOMAIN store.shards |-> 0]
    /\ conn = [c \in Conns |-> IdleConn]
    /\ sock = [c \in Conns |-> NoSock]
    /\ gc = [pc |-> IF config.GC.Enabled THEN "select" ELSE "off",
             pending |-> {},
             fired |-> 0,
             ratios |-> [s \in DOMAIN store.shards |-> [expired |-> 0, checked |-> 0]],
             stats |-> [num |-> 0, den |-> 1]]
    /\ tickC = 0
    /\ stopGC = FALSE
    /\ issued = 0
    /\ aof = IF config.AOF.Enabled THEN NewAOF(config.AOF.Fsync) ELSE NoAOF
    /\ rdb = IF config.RDB.Enabled THEN NewRDB(config.RDB.Interval) ELSE NoRDB
    /\ sd = "running"

\* NewEngine on a new store, at time 0
InitEngine(config) ==
    /\ store = [shards |-> NewShardedMapStorage(config.Storage.Shards).shards,
                shardMask |-> NewShardedMapStorage(config.Storage.Shards).shardMask]
    /\ now = 0
    /\ InitRest(config)

vars == <<now, cfg, menu, sock, issued, mu, conn, gc, tickC, stopGC, aof, rdb, sd, store>>

\* clients reading and writing one key while time passes and the reaper runs
StoreMenu ==
    {Frame(bGET, <<kA>>), Frame(bTTL, <<kA>>), Frame(bPTTL, <<kA>>),
     Frame(bSET, <<kA, vX, bPX, d1>>), Frame(bSET, <<kA, vY>>),
     Frame(bDEL, <<kA>>), Frame(bPERSIST, <<kA>>)}

InitStore ==
    /\ InitEngine(Config(1, TRUE, 1, Threshold(1, 4), FALSE, "everysec", FALSE, ""))
    /\ menu = [c \in Conns |-> StoreMenu]

NextStore ==
    \/ \E c \in Conns : \E cmd \in menu[c] : get(c, cmd)
    \/ \E c \in Conns : \E cmd \in menu[c] : ttl(c, cmd)
    \/ \E c \in Conns : \E cmd \in menu[c] : persist(c, cmd)
    \/ \E c \in Conns : \E cmd \in menu[c] : del(c, cmd)
    \/ \E c \in Conns : \E cmd \in menu[c] : set(c, cmd)
    \/ \E c \in Conns : GetCheck(c)
    \/ \E c \in Conns : GetLock(c)
    \/ \E c \in Conns : ExpiryCheck(c)
    \/ \E c \in Conns : ExpiryLock(c)
    \/ \E c \in Conns : PersistLock(c)
    \/ \E c \in Conns : DelStep(c)
    \/ \E c \in Conns : SetStore(c)
    \/ \E c \in Conns : ExecuteTail(c)
    \/ \E c \in Conns : Reply(c)
    \/ Tick
    \/ TickerFire
    \/ GCSweepStart
    \/ \E s \in Shards : ShardSweep(s)
    \/ GCSweepDone

SpecStore == InitStore /\ [][NextStore]_vars

\* two clients writing one key with the log enabled, under each strategy,
\* while the server may be shut down
AOFMenu == {Frame(bSET, <<kA, vX>>), Frame(bSET, <<kA, vY>>), Frame(bDEL, <<kA>>)}

InitAOF ==
    /\ \E fsync \in {"always", "everysec", "no"} :
          InitEngine(Config(1, FALSE, 1, Threshold(1, 4), TRUE, fsync, FALSE, ""))
    /\ menu = [c \in Conns |-> AOFMenu]

NextAOF ==
    \/ \E c \in Conns : \E cmd \in menu[c] : set(c, cmd)
    \/ \E c \in Conns : \E cmd \in menu[c] : del(c, cmd)
    \/ \E c \in Conns : SetStore(c)
    \/ \E c \in Conns : DelStep(c)
    \/ \E c \in Conns : ExecuteTail(c)
    \/ \E c \in Conns : Reply(c)
    \/ ListenStart
    \/ ListenRecv
    \/ ListenTickerFire
    \/ ListenTick
    \/ ListenStop
    \/ Shutdown
    \/ CloseFile

SpecAOF == InitAOF /\ [][NextAOF]_vars

\* one client sending every kind of command, with the log and the snapshot
\* file enabled: commands that write and commands that do not, replies that
\* are errors and replies that are not.  The clock stands still, so no read
\* finds a deadline passed: whether a reply is an error never depends on it.
ExecMenu ==
    {Frame(bGET, <<kA>>), Frame(bGET, <<>>), Frame(bTTL, <<kA>>), Frame(bPTTL, <<kA>>),
     Frame(bPING, <<>>), Frame(bCOMMAND, <<bCOUNT>>), Frame(bSAVE, <<>>),
     Frame(bBGSAVE, <<>>),
     Frame(bSET, <<kA, vX, bPX, d1>>), Frame(bset, <<kA, vY, bNX>>),
     Frame(bSET, <<kA>>), Frame(bSET, <<kA, vX, bEX>>),
     Frame(bDEL, <<kA, kB>>), Frame(bPERSIST, <<kA>>), Frame(bPERSIST, <<>>),
     Frame(bFOO, <<kA>>)}

InitExec ==
    /\ InitEngine(Config(1, FALSE, 1, Threshold(1, 4), TRUE, "always", TRUE, ""))
    /\ menu = [c \in Conns |-> IF c = 1 THEN ExecMenu ELSE {}]

NextExec ==
    \/ \E c \in Conns : \E frame \in menu[c] : get(c, frame)
    \/ \E c \in Conns : \E frame \in menu[c] : ttl(c, frame)
    \/ \E c \in Conns : \E frame \in menu[c] : persist(c, frame)
    \/ \E c \in Conns : \E frame \in menu[c] : del(c, frame)
    \/ \E c \in Conns : \E frame \in menu[c] : set(c, frame)
    \/ \E c \in Conns : \E frame \in menu[c] : ping(c, frame)
    \/ \E c \in Conns : \E frame \in menu[c] : cmdCOMMAND(c, frame)
    \/ \E c \in Conns : \E frame \in menu[c] : save(c, frame)
    \/ \E c \in Conns : \E frame \in menu[c] : bgsave(c, frame)
    \/ \E c \in Conns : \E frame \in menu[c] : Unknown(c, frame)
    \/ \E c \in Conns : GetCheck(c)
    \/ \E c \in Conns : ExpiryCheck(c)
    \/ \E c \in Conns : PersistLock(c)
    \/ \E c \in Conns : DelStep(c)
    \/ \E c \in Conns : SetStore(c)
    \/ \E c \in Conns : SaveReturn(c)
    \/ \E c \in Conns : ExecuteTail(c)
    \/ \E c \in Conns : Reply(c)
    \/ \E t \in Savers : SaveCreate(t)
    \/ \E t \in Savers : SaveSnapshot(t)
    \/ \E t \in Savers : SaveFlush(t)
    \/ \E t \in Savers : SaveSync(t)
    \/ \E t \in Savers : SaveRename(t)
    \/ ListenStart
    \/ ListenRecv

SpecExec == InitExec /\ [][NextExec]_vars

\* one client writing one key, with options and with time passing, while
\* every command goes to the log
ReplayMenu ==
    {Frame(bSET, <<kA, vX, bPX, d1>>), Frame(bSET, <<kA, vY, bNX>>),
     Frame(bSET, <<kA, vY>>), Frame(bDEL, <<kA>>), Frame(bPERSIST, <<kA>>)}

InitReplay ==
    /\ InitEngine(Config(1, FALSE, 1, Threshold(1, 4), TRUE, "always", FALSE, ""))
    /\ menu = [c \in Conns |-> IF c = 1 THEN ReplayMenu ELSE {}]

NextReplay ==
    \/ \E c \in Conns : \E frame \in menu[c] : set(c, frame)
    \/ \E c \in Conns : \E frame \in menu[c] : del(c, frame)
    \/ \E c \in Conns : \E frame \in menu[c] : persist(c, frame)
    \/ \E c \in Conns : SetStore(c)
    \/ \E c \in Conns : DelStep(c)
    \/ \E c \in Conns : PersistLock(c)
    \/ \E c \in Conns : ExecuteTail(c)
    \/ \E c \in Conns : Reply(c)
    \/ ListenStart
    \/ ListenRecv
    \/ Tick

SpecReplay == InitReplay /\ [][NextReplay]_vars

\* saves that run one at a time: one client sends SAVE, both write, a
\* system call may fail and the machine may stop
SaveMenu == {Frame(bSAVE, <<>>), Frame(bSET, <<kA, vX>>), Frame(bDEL, <<kA>>)}

InitSave ==
    /\ InitEngine(Config(1, FALSE, 1, Threshold(1, 4), FALSE, "always", TRUE, ""))
    /\ menu = [c \in Conns |-> IF c = 1 THEN SaveMenu ELSE {Frame(bSET, <<kB, vY>>)}]

NextSave ==
    \/ \E c \in Conns : \E frame \in menu[c] : save(c, frame)
    \/ \E c \in Conns : \E frame \in menu[c] : set(c, frame)
    \/ \E c \in Conns : \E frame \in menu[c] : del(c, frame)
    \/ \E c \in Conns : SetStore(c)
    \/ \E c \in Conns : DelStep(c)
    \/ \E c \in Conns : SaveReturn(c)
    \/ \E c \in Conns : ExecuteTail(c)
    \/ \E c \in Conns : Reply(c)
    \/ \E t \in Savers : SaveCreate(t)
    \/ \E t \in Savers : SaveSnapshot(t)
    \/ \E t \in Savers : SaveFlush(t)
    \/ \E t \in Savers : SaveSync(t)
    \/ \E t \in Savers : SaveRename(t)
    \/ \E t \in Savers : SaveFail(t)
    \/ Crash

SpecSave == InitSave /\ [][NextSave]_vars

\* saves started by SAVE, by BGSAVE and by the auto-save ticker while the
\* clients write
SavesMenu == {Frame(bSAVE, <<>>), Frame(bBGSAVE, <<>>), Frame(bSET, <<kA, vX>>)}

InitSaves ==
    /\ InitEngine(Config(1, FALSE, 1, Threshold(1, 4), FALSE, "always", TRUE, "1s"))
    /\ menu = [c \in Conns |-> SavesMenu]

NextSaves ==
    \/ \E c \in Conns : \E frame \in menu[c] : save(c, frame)
    \/ \E c \in Conns : \E frame \in menu[c] : bgsave(c, frame)
    \/ \E c \in Conns : \E frame \in menu[c] : set(c, frame)
    \/ \E c \in Conns : SetStore(c)
    \/ \E c \in Conns : SaveReturn(c)
    \/ \E c \in Conns : ExecuteTail(c)
    \/ \E c \in Conns : Reply(c)
    \/ \E t \in Savers : SaveCreate(t)
    \/ \E t \in Savers : SaveSnapshot(t)
    \/ \E t \in Savers : SaveFlush(t)
    \/ \E t \in Savers : SaveSync(t)
    \/ \E t \in Savers : SaveRename(t)
    \/ AutoTickerFire
    \/ AutoSaveTick

SpecSaves == InitSaves /\ [][NextSaves]_vars

\* the reaper alone, no client connected, on a store of two shards whose
\* deadlines have all passed; the server may be shut down
kC == <<99>>
kD == <<100>>

\* the store of mask shardMask that holds the keys of E with the deadlines
\* exp and the keys of P with none
StoreOf(n, E, exp, P) ==
    LET mask == NewShardedMapStorage(n).shardMask
        In(s, S) == {k \in S : getShardIndex(k, mask) = s}
    IN [shards |-> [s \in DOMAIN NewShardedMapStorage(n).shards |->
                      [data |-> [k \in In(s, E \cup P) |-> Entity(TypeString, vX)],
                       expires |-> [k \in In(s, E) |-> exp[k]]]],
        shardMask |-> mask]

InitGC ==
    /\ now = MaxTime
    /\ \E E \in SUBSET {kA, kB, kC} : \E P \in SUBSET {kD} :
         \E exp \in [E -> 0..(MaxTime - 1)] :
            /\ E # {}
            /\ store = StoreOf(2, E, exp, P)
    /\ \E samples \in {1, 2} :
          InitRest(Config(2, TRUE, samples, Threshold(1, 4), FALSE, "always", FALSE, ""))
    /\ menu = [c \in Conns |-> {}]

NextGC ==
    \/ TickerFire
    \/ GCSweepStart
    \/ \E s \in Shards : ShardSweep(s)
    \/ GCSweepDone
    \/ GCStop
    \/ Shutdown

\* the ticker keeps firing and the scheduler keeps running the goroutines of
\* the reaper; nothing obliges the server to be shut down
SpecGC ==
    /\ InitGC
    /\ [][NextGC]_vars
    /\ WF_vars(TickerFire)
    /\ WF_vars(GCSweepStart)
    /\ WF_vars(\E s \in Shards : ShardSweep(s))
    /\ WF_vars(GCSweepDone)

\* one client sending SET with its options in every order, with arguments
\* in and out of range and with option lists that are not accepted, on one
\* key, while time passes
d0 == <<48>>
d7 == <<55>>
d8 == <<56>>

SetMenu ==
    {Frame(bSET, <<kA, vX>>), Frame(bSET, <<kA, vY, bNX>>), Frame(bSET, <<kA, vY, bXX>>),
     Frame(bSET, <<kA, vX, bPX, d1>>), Frame(bSET, <<kA, vY, bKEEPTTL>>),
     Frame(bSET, <<kA, vY, bXX, bKEEPTTL>>),
     Frame(bSET, <<kA, vY, bNX, bEXAT, d0>>), Frame(bSET, <<kA, vY, bEXAT, d0, bNX>>),
     Frame(bSET, <<kA, vX, bEX, d1>>), Frame(bSET, <<kA, vX, bEX, d7>>),
     Frame(bSET, <<kA, vX, bEX, d8>>),
     Frame(bSET, <<kA, vY, bNX, bXX>>), Frame(bSET, <<kA, vY, bPX, d1, bKEEPTTL>>),
     Frame(bSET, <<kA, vY, bEX>>), Frame(bSET, <<kA, vY, bPX, vX>>),
     Frame(bSET, <<kA, vY, bNX, bFOO>>), Frame(bSET, <<kA, vY, bEXAT, d0, bFOO>>)}

InitSet ==
    /\ InitEngine(Config(1, FALSE, 1, Threshold(1, 4), FALSE, "always", FALSE, ""))
    /\ menu = [c \in Conns |-> IF c = 1 THEN SetMenu ELSE {}]

NextSet ==
    \/ \E c \in Conns : \E frame \in menu[c] : set(c, frame)
    \/ \E c \in Conns : SetStore(c)
    \/ \E c \in Conns : ExecuteTail(c)
    \/ \E c \in Conns : Reply(c)
    \/ Tick

SpecSet == InitSet /\ [][NextSet]_vars

\* writes, a save, a file that may be altered, and one restart on it
dNeg1 == <<45, 49>>

LoadMenu ==
    {Frame(bSET, <<kA, vX>>), Frame(bSET, <<kB, vY, bPX, d1>>),
     Frame(bSET, <<kA, vX, bEX, dNeg1>>), Frame(bSAVE, <<>>)}

InitLoad ==
    /\ InitEngine(Config(2, FALSE, 1, Threshold(1, 4), FALSE, "always", TRUE, ""))
    /\ menu = [c \in Conns |-> IF c = 1 THEN LoadMenu ELSE {}]

NextLoad ==
    \/ \E c \in Conns : \E frame \in menu[c] : set(c, frame)
    \/ \E c \in Conns : \E frame \in menu[c] : save(c, frame)
    \/ \E c \in Conns : SetStore(c)
    \/ \E c \in Conns : SaveReturn(c)
    \/ \E c \in Conns : ExecuteTail(c)
    \/ \E c \in Conns : Reply(c)
    \/ \E t \in Savers : SaveCreate(t)
    \/ \E t \in Savers : SaveSnapshot(t)
    \/ \E t \in Savers : SaveFlush(t)
    \/ \E t \in Savers : SaveSync(t)
    \/ \E t \in Savers : SaveRename(t)
    \/ Tick
    \/ Truncate
    \/ OtherMagic
    \/ ForeignRecord
    \/ \E n \in {1, 2} : Restart(n)

SpecLoad == InitLoad /\ [][NextLoad]_vars

\* main is started with a shard count and builds the store
InitBuild ==
    /\ \E n \in 0..MaxShards :
          cfg = Config(n, FALSE, 1, Threshold(1, 4), FALSE, "always", FALSE, "")
    /\ store = [shards |-> <<>>, shardMask |-> 0]
    /\ mu = <<>>
    /\ now = 0
    /\ menu = [c \in Conns |-> {}]
    /\ conn = [c \in Conns |-> IdleConn]
    /\ sock = [c \in Conns |-> NoSock]
    /\ gc = [pc |-> "off", pending |-> {}, fired |-> 0, ratios |-> <<>>,
             stats |-> [num |-> 0, den |-> 1]]
    /\ tickC = 0
    /\ stopGC = FALSE
    /\ issued = 0
    /\ aof = NoAOF
    /\ rdb = NoRDB
    /\ sd = "starting"

\* main: storage.NewShardedMapStorage(cfg.Storage.Shards); on an error main
\* logs it and returns
Build ==
    LET r == NewShardedMapStorage(cfg.Storage.Shards)
    IN /\ sd = "starting"
       /\ IF r.ok
          THEN /\ store' = [shards |-> r.shards, shardMask |-> r.shardMask]
               /\ mu' = [s \in DOMAIN r.shards |-> 0]
               /\ sd' = "running"
          ELSE /\ UNCHANGED <<store, mu>>
               /\ sd' = "exit"
       /\ UNCHANGED <<now, cfg, menu, sock, issued, conn, gc, tickC, stopGC, aof, rdb>>

NextBuild == Build

SpecBuild == InitBuild /\ [][NextBuild]_vars

\* one client that pipelines: the bytes it sends are up to MaxCmds pieces,
\* each a whole command, a value that is no command, or bytes no Decoder
\* accepts, and then it closes its side
bulk(s) == MakeBulkString(s)
PipeCommands ==
    {SerializeCommand(bSET, <<bulk(kA), bulk(vX)>>),
     SerializeCommand(bGET, <<bulk(kA)>>),
     SerializeCommand(bDEL, <<bulk(kA)>>),
     SerializeCommand(bPING, <<>>),
     <<42, 49, 13, 10, 58, 49, 13, 10>>}                   \* *1 :1
PipeOthers ==
    {<<43, 79, 75, 13, 10>>,                                \* +OK
     <<42, 48, 13, 10>>,                                    \* *0
     bNullArray}                                            \* *-1
PipeBroken ==
    {<<36, 45, 50, 13, 10>>,                                \* $-2
     <<42, 45, 50, 13, 10>>,                                \* *-2
     <<36, 57, 57, 13, 10>>,                                \* $99
     <<36, 51, 13, 10, 97, 98>>,                            \* $3 ab
     <<42, 50, 13, 10, 36, 51, 13, 10, 71, 69, 84, 13, 10>>} \* *2 $3 GET
PipePieces == PipeCommands \cup PipeOthers \cup PipeBroken

RECURSIVE PipeStreams(_)
\* the streams of up to n pieces
PipeStreams(n) ==
    IF n = 0 THEN {<<>>}
    ELSE LET shorter == PipeStreams(n - 1)
         IN shorter \cup {s \o p : s \in shorter, p \in PipePieces}

InitPipe ==
    /\ store = [shards |-> NewShardedMapStorage(1).shards,
                shardMask |-> NewShardedMapStorage(1).shardMask]
    /\ now = 0
    /\ cfg = Config(1, FALSE, 1, Threshold(1, 4), FALSE, "always", FALSE, "")
    /\ mu = [s \in DOMAIN store.shards |-> 0]
    /\ conn = [c \in Conns |-> IdleConn]
    /\ \E bytes \in PipeStreams(MaxCmds) :
          sock = [c \in Conns |-> IF c = 1 THEN NewSock(bytes) ELSE NoSock]
    /\ menu = [c \in Conns |-> {}]
    /\ gc = [pc |-> "off", pending |-> {}, fired |-> 0,
             ratios |-> [s \in DOMAIN store.shards |-> [expired |-> 0, checked |-> 0]],
             stats |-> [num |-> 0, den |-> 1]]
    /\ tickC = 0
    /\ stopGC = FALSE
    /\ issued = 0
    /\ aof = NoAOF
    /\ rdb = NoRDB
    /\ sd = "running"

NextPipe ==
    \/ \E c \in Conns : ReadCommand(c)
    \/ \E c \in Conns : \E frame \in menu[c] : get(c, frame)
    \/ \E c \in Conns : \E frame \in menu[c] : set(c, frame)
    \/ \E c \in Conns : \E frame \in menu[c] : del(c, frame)
    \/ \E c \in Conns : \E frame \in menu[c] : ping(c, frame)
    \/ \E c \in Conns : \E frame \in menu[c] : Unknown(c, frame)
    \/ \E c \in Conns : DelStep(c)
    \/ \E c \in Conns : SetStore(c)
    \/ \E c \in Conns : ExecuteTail(c)
    \/ \E c \in Conns : Reply(c)

SpecPipe == InitPipe /\ [][NextPipe]_vars

\* one client that writes a key and reads it back, or writes it, deletes it
\* and reads it, for keys and values that are empty or hold CR and LF; the
\* key may be there before, with or without a deadline, passed or not
vOld == <<111>>
EchoStrings == {<<>>, <<97>>, <<13, 10>>, <<10>>, <<97, 13, 10, 98>>}
SetGet(k, v) ==
    SerializeCommand(bSET, <<bulk(k), bulk(v)>>) \o SerializeCommand(bGET, <<bulk(k)>>)
SetDelGet(k, v) ==
    SerializeCommand(bSET, <<bulk(k), bulk(v)>>) \o SerializeCommand(bDEL, <<bulk(k)>>)
      \o SerializeCommand(bGET, <<bulk(k)>>)
EchoShards(k) ==
    {NewMapStorage,
     [data |-> Put(<<>>, k, Entity(TypeString, vOld)), expires |-> <<>>]}
    \cup {[data |-> Put(<<>>, k, Entity(TypeString, vOld)), expires |-> Put(<<>>, k, d)] :
             d \in 0..MaxTime}

InitEcho ==
    /\ \E k \in EchoStrings : \E v \in EchoStrings :
          /\ \E bytes \in {SetGet(k, v), SetDelGet(k, v)} :
                sock = [c \in Conns |-> IF c = 1 THEN NewSock(bytes) ELSE NoSock]
          /\ \E m \in EchoShards(k) :
                store = [shards |-> [s \in {0} |-> m], shardMask |-> 0]
    /\ now = 1
    /\ cfg = Config(1, FALSE, 1, Threshold(1, 4), FALSE, "always", FALSE, "")
    /\ mu = [s \in DOMAIN store.shards |-> 0]
    /\ conn = [c \in Conns |-> IdleConn]
    /\ menu = [c \in Conns |-> {}]
    /\ gc = [pc |-> "off", pending |-> {}, fired |-> 0,
             ratios |-> [s \in DOMAIN store.shards |-> [expired |-> 0, checked |-> 0]],
             stats |-> [num |-> 0, den |-> 1]]
    /\ tickC = 0
    /\ stopGC = FALSE
    /\ issued = 0
    /\ aof = NoAOF
    /\ rdb = NoRDB
    /\ sd = "running"

NextEcho ==
    \/ \E c \in Conns : ReadCommand(c)
    \/ \E c \in Conns : \E frame \in menu[c] : get(c, frame)
    \/ \E c \in Conns : \E frame \in menu[c] : set(c, frame)
    \/ \E c \in Conns : \E frame \in menu[c] : del(c, frame)
    \/ \E c \in Conns : DelStep(c)
    \/ \E c \in Conns : SetStore(c)
    \/ \E c \in Conns : ExecuteTail(c)
    \/ \E c \in Conns : Reply(c)

SpecEcho == InitEcho /\ [][NextEcho]_vars

\* one client that gives a key deadlines near and far and asks for the time
\* left, while time passes
d11 == <<49, 49>>
TTLMenu ==
    {Frame(bSET, <<kA, vX, bPX, d11>>), Frame(bSET, <<kA, vX, bPX, d1>>),
     Frame(bSET, <<kA, vX>>), Frame(bDEL, <<kA>>),
     Frame(bTTL, <<kA>>), Frame(bPTTL, <<kA>>)}

InitTTL ==
    /\ InitEngine(Config(1, FALSE, 1, Threshold(1, 4), FALSE, "always", FALSE, ""))
    /\ menu = [c \in Conns |-> IF c = 1 THEN TTLMenu ELSE {}]

NextTTL ==
    \/ \E c \in Conns : \E frame \in menu[c] : ttl(c, frame)
    \/ \E c \in Conns : \E frame \in menu[c] : set(c, frame)
    \/ \E c \in Conns : \E frame \in menu[c] : del(c, frame)
    \/ \E c \in Conns : ExpiryCheck(c)
    \/ \E c \in Conns : ExpiryLock(c)
    \/ \E c \in Conns : DelStep(c)
    \/ \E c \in Conns : SetStore(c)
    \/ \E c \in Conns : ExecuteTail(c)
    \/ \E c \in Conns : Reply(c)
    \/ Tick

SpecTTL == InitTTL /\ [][NextTTL]_vars

\* a store loaded from a file that may hold a hash, with a deadline of the
\* key or of a field, or a string with a deadline; then one client sends
\* commands on the key, the hash operations are called on it, time passes
\* and the reaper runs
fF == <<103>>
fG == <<104>>
HashSeeds == {"empty", "hash with deadline", "field with deadline", "string with deadline"}
HashSeed(seed) ==
    CASE seed = "hash with deadline" ->
           [data |-> Put(<<>>, kA, Entity(TypeHash, Put(<<>>, fF, HashField(vX, 0)))),
            expires |-> Put(<<>>, kA, 1)]
      [] seed = "field with deadline" ->
           [data |-> Put(<<>>, kA, Entity(TypeHash, Put(<<>>, fF, HashField(vX, 1)))),
            expires |-> <<>>]
      [] seed = "string with deadline" ->
           [data |-> Put(<<>>, kA, Entity(TypeString, vX)), expires |-> Put(<<>>, kA, 1)]
      [] OTHER -> NewMapStorage
HashMenu ==
    {Frame(bGET, <<kA>>), Frame(bSET, <<kA, vY>>), Frame(bSET, <<kA, vY, bPX, d1>>),
     Frame(bDEL, <<kA>>), Frame(bPERSIST, <<kA>>), Frame(bTTL, <<kA>>)}
HashFieldMaps == {<<>>, Put(<<>>, fF, vY), Put(<<>>, fG, vY)}

InitHash ==
    /\ \E seed \in HashSeeds :
          store = RDBLoad([shards |-> NewShardedMapStorage(1).shards,
                           shardMask |-> NewShardedMapStorage(1).shardMask],
                          TRUE,
                          bMagic \o MapSnapshot(HashSeed(seed),
                                                CHOOSE o \in Orders(DOMAIN HashSeed(seed).data) : TRUE,
                                                0),
                          0).st
    /\ now = 0
    /\ InitRest(Config(1, TRUE, 1, Threshold(1, 4), FALSE, "always", FALSE, ""))
    /\ menu = [c \in Conns |-> IF c = 1 THEN HashMenu ELSE {}]

NextHash ==
    \/ \E fields \in HashFieldMaps : HSet(kA, fields)
    \/ \E field \in {fF, fG} : HGet(kA, field)
    \/ HGetAll(kA)
    \/ \E fields \in {{fF}, {fF, fG}} : HDel(kA, fields)
    \/ \E field \in {fF, fG} : HExists(kA, field)
    \/ \E c \in Conns : \E frame \in menu[c] : get(c, frame)
    \/ \E c \in Conns : \E frame \in menu[c] : ttl(c, frame)
    \/ \E c \in Conns : \E frame \in menu[c] : persist(c, frame)
    \/ \E c \in Conns : \E frame \in menu[c] : del(c, frame)
    \/ \E c \in Conns : \E frame \in menu[c] : set(c, frame)
    \/ \E c \in Conns : GetCheck(c)
    \/ \E c \in Conns : GetLock(c)
    \/ \E c \in Conns : ExpiryCheck(c)
    \/ \E c \in Conns : ExpiryLock(c)
    \/ \E c \in Conns : PersistLock(c)
    \/ \E c \in Conns : DelStep(c)
    \/ \E c \in Conns : SetStore(c)
    \/ \E c \in Conns : ExecuteTail(c)
    \/ \E c \in Conns : Reply(c)
    \/ Tick
    \/ TickerFire
    \/ GCSweepStart
    \/ \E s \in Shards : ShardSweep(s)
    \/ GCSweepDone

SpecHash == InitHash /\ [][NextHash]_vars

\* a server started with one or two shards takes writes and deletes of keys
\* of different shards and a save, and is started again on the snapshot with
\* one, two or four shards
ShardMenu ==
    {Frame(bSET, <<kA, vX>>), Frame(bSET, <<kB, vY, bPX, d1>>),
     Frame(bSET, <<kC, vX>>), Frame(bDEL, <<kA, kB, kC>>), Frame(bSAVE, <<>>)}

InitShard ==
    /\ \E n \in {1, 2} :
          InitEngine(Config(n, FALSE, 1, Threshold(1, 4), FALSE, "always", TRUE, ""))
    /\ menu = [c \in Conns |-> IF c = 1 THEN ShardMenu ELSE {}]

NextShard ==
    \/ \E c \in Conns : \E frame \in menu[c] : set(c, frame)
    \/ \E c \in Conns : \E frame \in menu[c] : del(c, frame)
    \/ \E c \in Conns : \E frame \in menu[c] : save(c, frame)
    \/ \E c \in Conns : SetStore(c)
    \/ \E c \in Conns : DelStep(c)
    \/ \E c \in Conns : SaveReturn(c)
    \/ \E c \in Conns : ExecuteTail(c)
    \/ \E c \in Conns : Reply(c)
    \/ \E t \in Savers : SaveCreate(t)
    \/ \E t \in Savers : SaveSnapshot(t)
    \/ \E t \in Savers : SaveFlush(t)
    \/ \E t \in Savers : SaveSync(t)
    \/ \E t \in Savers : SaveRename(t)
    \/ Tick
    \/ \E n \in {1, 2, 4} : Restart(n)

SpecShard == InitShard /\ [][NextShard]_vars

\* a server that loaded the snapshot file at its start, RDB.Load having
\* restored an empty store, a key without a deadline or a key with one; then
\* two clients send commands on the key while time passes
LinSeeds == {"empty", "string", "string with deadline"}
LinSeed(seed) ==
    CASE seed = "string" ->
           [data |-> Put(<<>>, kA, Entity(TypeString, vOld)), expires |-> <<>>]
      [] seed = "string with deadline" ->
           [data |-> Put(<<>>, kA, Entity(TypeString, vOld)), expires |-> Put(<<>>, kA, 1)]
      [] OTHER -> NewMapStorage
LinImage(seed) ==
    bMagic \o MapSnapshot(LinSeed(seed), CHOOSE o \in Orders(DOMAIN LinSeed(seed).data) : TRUE, 0)
LinMenu ==
    {Frame(bGET, <<kA>>), Frame(bPTTL, <<kA>>), Frame(bPERSIST, <<kA>>),
     Frame(bDEL, <<kA>>), Frame(bSET, <<kA, vX, bNX>>), Frame(bSET, <<kA, vY, bNX>>),
     Frame(bSET, <<kA, vY, bPX, d1>>), Frame(bSET, <<kA, vX, bXX, bKEEPTTL>>)}
Fresh1 ==
    [shards |-> NewShardedMapStorage(1).shards, shardMask |-> NewShardedMapStorage(1).shardMask]

InitLin ==
    /\ \E seed \in LinSeeds :
          LET r == RDBLoad(Fresh1, TRUE, LinImage(seed), 0)
          IN /\ store = r.st
             /\ rdb = [NewRDB("") EXCEPT
                         !.names[filename] = 1,
                         !.inodes = <<[bytes |-> LinImage(seed), durable |-> LinImage(seed)]>>,
                         !.installed = [exists |-> TRUE, bytes |-> LinImage(seed)],
                         !.outputs = {LinImage(seed)},
                         !.load = [kind |-> r.kind, records |-> r.n, altered |-> FALSE]]
    /\ now = 0
    /\ cfg = Config(1, FALSE, 1, Threshold(1, 4), FALSE, "always", TRUE, "")
    /\ mu = [s \in DOMAIN store.shards |-> 0]
    /\ conn = [c \in Conns |-> IdleConn]
    /\ sock = [c \in Conns |-> NoSock]
    /\ gc = [pc |-> "off", pending |-> {}, fired |-> 0,
             ratios |-> [s \in DOMAIN store.shards |-> [expired |-> 0, checked |-> 0]],
             stats |-> [num |-> 0, den |-> 1]]
    /\ tickC = 0
    /\ stopGC = FALSE
    /\ issued = 0
    /\ aof = NoAOF
    /\ sd = "running"
    /\ menu = [c \in Conns |-> LinMenu]

NextLin ==
    \/ \E c \in Conns : \E frame \in menu[c] : get(c, frame)
    \/ \E c \in Conns : \E frame \in menu[c] : ttl(c, frame)
    \/ \E c \in Conns : \E frame \in menu[c] : persist(c, frame)
    \/ \E c \in Conns : \E frame \in menu[c] : del(c, frame)
    \/ \E c \in Conns : \E frame \in menu[c] : set(c, frame)
    \/ \E c \in Conns : GetCheck(c)
    \/ \E c \in Conns : GetLock(c)
    \/ \E c \in Conns : ExpiryCheck(c)
    \/ \E c \in Conns : ExpiryLock(c)
    \/ \E c \in Conns : PersistLock(c)
    \/ \E c \in Conns : DelStep(c)
    \/ \E c \in Conns : SetStore(c)
    \/ \E c \in Conns : ExecuteTail(c)
    \/ \E c \in Conns : Reply(c)
    \/ Tick

SpecLin == InitLin /\ [][NextLin]_vars

\* the reaper on stores that hold keys with deadlines passed and to come and
\* a key without one, for every samples_per_check from 0 on
InitSweep ==
    /\ now = 1
    /\ \E E \in SUBSET {kA, kB, kC} : \E P \in SUBSET {kD} :
         \E exp \in [E -> 0..MaxTime] :
            /\ E # {}
            /\ store = StoreOf(2, E, exp, P)
    /\ \E samples \in 0..2 :
          InitRest(Config(2, TRUE, samples, Threshold(1, 4), FALSE, "always", FALSE, ""))
    /\ menu = [c \in Conns |-> {}]

SpecSweep == InitSweep /\ [][NextGC]_vars

\* clients that set a key with a deadline, read it, ask for its remaining
\* time, set it again under NX, delete it and persist it while the clock
\* reaches the deadline and the reaper runs
DueMenu ==
    {Frame(bGET, <<kA>>), Frame(bPTTL, <<kA>>), Frame(bSET, <<kA, vX, bPX, d1>>),
     Frame(bSET, <<kA, vY, bNX>>), Frame(bDEL, <<kA>>), Frame(bPERSIST, <<kA>>)}

InitDue ==
    /\ InitEngine(Config(1, TRUE, 1, Threshold(1, 4), FALSE, "everysec", FALSE, ""))
    /\ menu = [c \in Conns |-> DueMenu]

SpecDue == InitDue /\ [][NextStore]_vars

\* one client sending SET with each source of the TTL and the integers 1, 0
\* and -1 after it, on a key that is absent or present, while time passes
SourceMenu ==
    {Frame(bSET, <<kA, vX, src, d>>) : src \in {bEX, bPX, bEXAT, bPXAT}, d \in {d1, d0, dNeg1}}
        \cup {Frame(bSET, <<kA, vY, bXX, bPX, d0>>)}

InitSource ==
    /\ InitEngine(Config(1, FALSE, 1, Threshold(1, 4), FALSE, "always", FALSE, ""))
    /\ menu = [c \in Conns |-> IF c = 1 THEN SourceMenu ELSE {}]

SpecSource == InitSource /\ [][NextSet]_vars

(***************************************************************************)
(* Claims.                                                                 *)
(***************************************************************************)
IsRead(name) == name \in {bGET, bTTL, bPTTL}

NotPresentReply(name) ==
    IF name = bGET THEN MakeNilBulkString ELSE MakeInteger(ExpNotFound)

\* C1: a GET, TTL or PTTL that takes effect when the stored deadline of its
\* key is in the past replies not-present (nil for GET, -2 for TTL and PTTL),
\* and when it takes effect the key is in neither table of its shard.  A read
\* takes effect at its exclusive section when it enters one, and at its
\* shared section otherwise.
C1_LazyExpiration ==
    \A c \in Conns :
        (conn[c].pc = "tail" /\ IsRead(conn[c].name) /\ conn[c].hExpired)
            => (conn[c].res = NotPresentReply(conn[c].name) /\ conn[c].hGone)

\* a GET found a passed deadline, removed the key and replied nil
C1_Witness ==
    \E c \in Conns :
        /\ conn[c].pc = "tail"
        /\ conn[c].name = bGET
        /\ conn[c].hExpired
        /\ conn[c].hGone
        /\ conn[c].res = MakeNilBulkString

Keys == {kA, kB}

\* every command has returned and the log file holds all that was enqueued
Quiescent ==
    /\ \A c \in Conns : conn[c].pc = "idle"
    /\ aof.commandsChan = <<>>
    /\ aof.writer = <<>>

\* C2: when two connections write the same key concurrently, the records are
\* in the log in the order in which the writes took effect, so replaying the
\* log ends with the value the live store holds for the key.
C2_LogOrder ==
    (cfg.AOF.Enabled /\ Quiescent) =>
        \A key \in Keys :
            Visible(Restarted(cfg.Storage.Shards, aof.file, now), key, now)
                = Visible(store, key, now)

\* C3: under every strategy, when AOF.Close has returned the file is closed
\* and every payload enqueued before Close was called is in the file and
\* fsynced.  The channel is first in first out, so the payloads enqueued
\* before the call are the first sentAtClose ones.
C3_CloseDrains ==
    (cfg.AOF.Enabled /\ sd = "done") =>
        (aof.closed /\ aof.synced >= aof.sentAtClose)

\* C4: with strategy "no" the writer still runs: while the log is open a
\* payload in the channel has a listener that will dequeue it.
C4_WriterRuns ==
    (aof.strategy = fsyncNo /\ ~aof.stopChan /\ aof.commandsChan # <<>>)
        => aof.listen # "exited"

\* Engine.Execute returns on connection c in this step
ExecuteReturns(c) == conn[c].pc = "tail" /\ conn'[c].pc = "reply"

\* the payload Engine.Execute owes the log for the command of connection c
Owed(c) ==
    IF conn[c].name \in {bSET, bDEL, bPERSIST} /\ conn[c].res.Type # TypeError
    THEN <<SerializeCommand(conn[c].name, conn[c].args)>>
    ELSE <<>>

\* C5: with the log enabled, the step in which Engine.Execute returns puts
\* exactly one record, the serialized command, in the channel if the command
\* is SET, DEL or PERSIST and its reply is no error, and puts nothing there
\* otherwise; no other step of a connection puts anything in the channel.
C5_EnqueueIffWrite ==
    [][/\ \A c \in Conns :
             ExecuteReturns(c) => aof'.commandsChan = aof.commandsChan \o Owed(c)
       /\ aof'.sent # aof.sent => \E c \in Conns : ExecuteReturns(c) /\ Owed(c) # <<>>]_vars

\* a SET whose NX condition blocked it replied nil, which is no error, and
\* its record is in the channel
C5_Witness ==
    \E c \in Conns :
        /\ conn[c].pc = "reply"
        /\ conn[c].name = bSET
        /\ conn[c].res = MakeNilBulkString
        /\ conn[c].enq = <<SerializeCommand(bSET, conn[c].args)>>
        /\ aof.sent > 0

\* C6: replaying at restart the log of a sequence of SET, DEL and PERSIST
\* commands, sent by one client while time passes, gives every key the value
\* a client reads from the live store after those commands.
C6_ReplayEquivalent ==
    (Quiescent /\ issued > 0) =>
        \A key \in Keys :
            Visible(store, key, now)
                = Visible(Restarted(cfg.Storage.Shards, aof.file, now), key, now)

\* C7: while saves run one at a time the file at r.filename holds, in its
\* bytes and in its durable bytes, exactly what the last rename installed,
\* the complete output of one save, and does not exist before the first
\* rename: also while a save is at any step, after a system call failed and
\* after the machine stopped.
C7_AtomicSave ==
    LET ino == rdb.names[filename]
    IN IF rdb.installed.exists
       THEN /\ ino # 0
            /\ rdb.inodes[ino].bytes = rdb.installed.bytes
            /\ rdb.inodes[ino].durable = rdb.installed.bytes
            /\ rdb.installed.bytes \in rdb.outputs
       ELSE ino = 0

\* a second save has written and fsynced a different snapshot to the
\* temporary file while r.filename still holds the first one
C7_Witness ==
    /\ rdb.installed.exists
    /\ \E t \in Savers :
          /\ rdb.task[t].pc = "rename"
          /\ rdb.task[t].writer # rdb.installed.bytes
          /\ rdb.names[tmpFile] # 0

\* a save between creating the temporary file and renaming it
Saving(t) == rdb.task[t].pc \in {"snapshot", "flush", "sync", "rename"}

\* C8: saves never overlap: at most one task is between creating the
\* temporary file and renaming it, and the file at r.filename is always the
\* complete output of one save.
C8_NoOverlap ==
    /\ Cardinality({t \in Savers : Saving(t)}) <= 1
    /\ rdb.names[filename] # 0 => rdb.inodes[rdb.names[filename]].bytes \in rdb.outputs

\* C9: after a sweep whose mean ratio is at least the threshold the reaper
\* sweeps again without waiting for a tick, so it is never found back at its
\* select, with no tick pending and no stop signal, after such a sweep.
C9_HotSweepRepeats ==
    ~(/\ gc.pc = "select"
      /\ tickC = 0
      /\ ~stopGC
      /\ ~BelowThreshold(gc.stats, cfg.GC.MatchThreshold))

DeadlinesLeft == \E s \in Shards : DOMAIN store.shards[s].expires # {}

Min(a, b) == IF a < b THEN a ELSE b

\* the keys the sweep of shard s removes in this step
Swept(s) == DOMAIN store.shards[s].expires \ DOMAIN store'.shards[s].expires

C11_StopHonored ==
    [][(stopGC /\ gc.pc = "select" /\ gc'.pc = "sweep") => gc.fired <= 1]_vars

\* the step in which the set handler of connection c calls Storage.Set and
\* returns, and what Storage.Set does in it
SetReturns(c) == conn[c].pc = "set_store" /\ conn'[c].pc = "tail"

SetResult(c) ==
    MapSet(store.shards[ShardOf(conn[c].key)], conn[c].key, conn[c].value,
           conn[c].options, now)

\* C12: the reply of a SET whose options are accepted is +OK exactly when
\* the store applied the write, and the null bulk string exactly when the
\* store did not apply it because of NX or XX.
C12_SetReply ==
    [][\A c \in Conns :
         SetReturns(c) =>
            /\ (conn'[c].res = MakeSimpleString(bOK)) <=> SetResult(c).ok
            /\ (conn'[c].res = MakeNilBulkString) <=> ~SetResult(c).ok]_vars

RECURSIVE AcceptedOptions(_, _, _, _, _)
\* whether the tokens of a SET from args[i] on, read left to right, form an
\* option list the command accepts: nx, xx and src tell that a token before
\* args[i] was NX, XX, a source of the TTL
AcceptedOptions(args, i, nx, xx, src) ==
    IF i > Len(args) THEN TRUE
    ELSE LET token == ToUpper(args[i].String) IN
      CASE token = bNX -> ~xx /\ AcceptedOptions(args, i + 1, TRUE, xx, src)
        [] token = bXX -> ~nx /\ AcceptedOptions(args, i + 1, nx, TRUE, src)
        [] token = bKEEPTTL -> ~src /\ AcceptedOptions(args, i + 1, nx, xx, TRUE)
        [] token \in {bEX, bPX, bEXAT, bPXAT} ->
             /\ ~src
             /\ i + 1 <= Len(args)
             /\ ParseInt(args[i + 1].String).ok
             /\ AcceptedOptions(args, i + 2, nx, xx, TRUE)
        [] OTHER -> FALSE

\* C13: a SET whose option list holds NX with XX, a second source of the
\* TTL, a TTL option with no integer after it or an unknown token is
\* answered with an error, and the store is after the command what it was
\* before it.
C13_SetSyntaxErrors ==
    [][\A c \in Conns :
         (/\ conn[c].pc \in {"idle", "set_store"}
          /\ conn'[c].pc \in {"set_store", "tail"}
          /\ conn'[c].name = bSET
          /\ Len(conn'[c].args) >= 2
          /\ ~AcceptedOptions(conn'[c].args, 3, FALSE, FALSE, FALSE))
         => /\ conn'[c].pc = "tail"
            /\ conn'[c].res.Type = TypeError
            /\ store' = store]_vars

\* the key is in the value table of m and its deadline, if it has one, has
\* not passed at time t
Live(m, key, t) ==
    /\ key \in DOMAIN m.data
    /\ key \in DOMAIN m.expires => ~(t > m.expires[key])

\* The options the handler parsed are honoured by every Set that returns: with
\* NX on a live key nothing changes, with XX on an absent or expired key the
\* key ends in neither table, otherwise the value is stored; no other key
\* changes.
SetOptionsHonored ==
    [][\A c \in Conns :
         SetReturns(c) =>
            LET key == conn[c].key
                m == store.shards[ShardOf(key)]
                after == store'.shards[ShardOf(key)]
                live == Live(m, key, now)
                written == /\ key \in DOMAIN after.data
                           /\ after.data[key] = Entity(TypeString, conn[c].value)
            IN /\ (conn[c].options.NX /\ live) => after = m
               /\ (conn[c].options.XX /\ ~live) =>
                     /\ key \notin DOMAIN after.data
                     /\ key \notin DOMAIN after.expires
               /\ (conn[c].options.NX /\ ~live) => written
               /\ (conn[c].options.XX /\ live) => written
               /\ \A k \in (DOMAIN m.data \cup DOMAIN after.data) \ {key} :
                     /\ k \in DOMAIN m.data /\ k \in DOMAIN after.data
                     /\ after.data[k] = m.data[k]
                     /\ (k \in DOMAIN m.expires) = (k \in DOMAIN after.expires)
                     /\ k \in DOMAIN m.expires => after.expires[k] = m.expires[k]]_vars

\* the SET frame carries the option token tok
HasToken(c, tok) == \E i \in 3..Len(conn[c].args) : ToUpper(conn[c].args[i].String) = tok

\* C14: a SET command with NX on a live key, or with XX on a key that is
\* absent or whose deadline has passed, is not applied: the live key keeps
\* its value and deadline, the expired entry is removed; a SET with NX on an
\* absent or expired key and a SET with XX on a live key store the value.
C14_SetNXXX ==
    [][\A c \in Conns :
         SetReturns(c) =>
            LET key == conn[c].key
                m == store.shards[ShardOf(key)]
                after == store'.shards[ShardOf(key)]
                live == Live(m, key, now)
                written == /\ key \in DOMAIN after.data
                           /\ after.data[key] = Entity(TypeString, conn[c].value)
            IN /\ (HasToken(c, bNX) /\ live) => after = m
               /\ (HasToken(c, bXX) /\ ~live) =>
                     /\ key \notin DOMAIN after.data
                     /\ key \notin DOMAIN after.expires
               /\ (HasToken(c, bNX) /\ ~live) => written
               /\ (HasToken(c, bXX) /\ live) => written]_vars

\* C15: after a Set that was applied, the deadline of the key is the one it
\* had before when KeepTTL is set and the key was live (none when it was
\* absent or expired), now + TTL when TTL > 0, and none when TTL = 0
\* without KeepTTL.
C15_SetDeadline ==
    [][\A c \in Conns :
         (SetReturns(c) /\ SetResult(c).ok) =>
            LET key == conn[c].key
                m == store.shards[ShardOf(key)]
                after == store'.shards[ShardOf(key)]
                options == conn[c].options
                kept == /\ Live(m, key, now)
                        /\ key \in DOMAIN m.expires
            IN /\ (options.KeepTTL /\ kept) =>
                     /\ key \in DOMAIN after.expires
                     /\ after.expires[key] = m.expires[key]
               /\ (options.KeepTTL /\ ~kept) => key \notin DOMAIN after.expires
               /\ (~options.KeepTTL /\ options.TTL > 0) =>
                     /\ key \in DOMAIN after.expires
                     /\ after.expires[key] = now + options.TTL
               /\ (~options.KeepTTL /\ options.TTL = 0) =>
                     key \notin DOMAIN after.expires]_vars

\* C16: for every positive t that SET takes as its EX argument, the TTL read
\* at the instant the SET returns is t - 1 or t and the PTTL is in
\* 1..t * MillisPerSecond; the duration and the deadline are positive.
C16_ExpireSeconds ==
    [][\A c \in Conns :
         (/\ SetReturns(c)
          /\ Len(conn[c].args) = 4
          /\ ToUpper(conn[c].args[3].String) = bEX
          /\ ParseInt(conn[c].args[4].String).ok
          /\ ParseInt(conn[c].args[4].String).v > 0) =>
            LET key == conn[c].key
                t == ParseInt(conn[c].args[4].String).v
                after == store'.shards[ShardOf(key)]
                e == ExpiryLocked(after, key, now)
            IN /\ conn[c].options.TTL > 0
               /\ key \in DOMAIN after.expires
               /\ after.expires[key] > 0
               /\ ExpiryReply(bTTL, e.d, e.status) \in {MakeInteger(t - 1), MakeInteger(t)}
               /\ \E p \in 1..(t * MillisPerSecond) :
                     ExpiryReply(bPTTL, e.d, e.status) = MakeInteger(p)]_vars

\* the step in which the persist handler of connection c returns
PersistReturns(c) ==
    /\ conn[c].pc \in {"idle", "persist_lock"}
    /\ conn'[c].pc = "tail"
    /\ conn'[c].name = bPERSIST
    /\ Len(conn'[c].args) = 1

\* a PERSIST replies 1 exactly when its own step took the deadline of the key
\* away, and 0 otherwise, leaving the values and deadlines as they were
PersistCounts ==
    [][\A c \in Conns :
         PersistReturns(c) =>
            LET key == conn'[c].args[1].String
                m == store.shards[ShardOf(key)]
                after == store'.shards[ShardOf(key)]
                removed == /\ key \in DOMAIN m.expires
                           /\ key \notin DOMAIN after.expires
            IN /\ conn'[c].res \in {MakeInteger(0), MakeInteger(1)}
               /\ (conn'[c].res = MakeInteger(1)) <=> removed
               /\ (conn'[c].res = MakeInteger(0)) => store' = store]_vars

\* C17: over every interleaving of PERSIST calls a call replies 1 exactly
\* when it removed the deadline of the key, and a call that replies 0
\* changes nothing of the storage: not the values, not the deadlines and
\* not the lock of the shard, so that the calls after it are served too.
C17_PersistOnce ==
    [][\A c \in Conns :
         PersistReturns(c) =>
            LET key == conn'[c].args[1].String
                m == store.shards[ShardOf(key)]
                after == store'.shards[ShardOf(key)]
                removed == /\ key \in DOMAIN m.expires
                           /\ key \notin DOMAIN after.expires
            IN /\ (conn'[c].res = MakeInteger(1)) <=> removed
               /\ (conn'[c].res = MakeInteger(0)) => (store' = store /\ mu' = mu)]_vars

RECURSIVE ShardedSnapshots(_, _)
\* the streams ShardedMapStorage.Snapshot may write for the shards of st
\* from shard s on, one for each order of the map iterations
ShardedSnapshots(st, s) ==
    IF s \notin DOMAIN st.shards THEN {<<>>}
    ELSE {MapSnapshot(st.shards[s], o, now) \o rest :
            o \in Orders(DOMAIN st.shards[s].data),
            rest \in ShardedSnapshots(st, s + 1)}

\* the step in which the server starts again and RDB.Load runs
Restarts == rdb.load.kind = "none" /\ rdb'.load.kind # "none"

LoadKeys == {kA, kB, kForeign}

\* C18: a restart on a file that holds the snapshot of the store S, with any
\* valid number of shards, gives a store that holds exactly the keys of S
\* whose deadline is absent or not past at the time of the load, each in
\* its own shard with the value and the deadline it has in S; a key whose
\* deadline is past is in no table.
C18_RoundTrip ==
    [][(/\ Restarts
        /\ FileExists
        /\ \E b \in ShardedSnapshots(store, 0) : FileBytes = bMagic \o b) =>
          \A k \in LoadKeys :
             LET m == store.shards[ShardOf(k)]
                 home == getShardIndex(k, store'.shardMask)
                 after == store'.shards[home]
             IN /\ \A s \in DOMAIN store'.shards \ {home} :
                      /\ k \notin DOMAIN store'.shards[s].data
                      /\ k \notin DOMAIN store'.shards[s].expires
                /\ IF Live(m, k, now)
                   THEN /\ k \in DOMAIN after.data
                        /\ after.data[k] = m.data[k]
                        /\ (k \in DOMAIN after.expires) = (k \in DOMAIN m.expires)
                        /\ k \in DOMAIN m.expires => after.expires[k] = m.expires[k]
                   ELSE /\ k \notin DOMAIN after.data
                        /\ k \notin DOMAIN after.expires]_vars

\* C19: no shard ever holds a key whose type tag is one the loader does not
\* implement (List, Set, ZSet): a load that meets such a record fails and
\* materialises nothing.
C19_NoForeignTag ==
    \A s \in DOMAIN store.shards :
       \A k \in DOMAIN store.shards[s].data :
          store.shards[s].data[k].Type \notin {TypeList, TypeSet, TypeZSet}

\* C20: when RDB.Load does not complete, for a magic that does not match or
\* a record cut at any byte of its header, key or value, the store after
\* the load is the store before it, the new one NewShardedMapStorage made:
\* no shard holds a record of the file.
C20_FailedLoadLeavesStore ==
    [][(Restarts /\ rdb'.load.kind \in {"badmagic", "error"}) =>
          /\ store'.shards = NewShardedMapStorage(cfg'.Storage.Shards).shards
          /\ store'.shardMask = NewShardedMapStorage(cfg'.Storage.Shards).shardMask]_vars

\* a load failed at a cut record after it had read a whole one, and every
\* shard is empty
C20_Witness ==
    /\ rdb.load.kind = "error"
    /\ rdb.load.altered
    /\ rdb.load.records >= 1
    /\ \A s \in DOMAIN store.shards : store.shards[s] = NewMapStorage

\* the powers of two from 1 to 64
ValidShardCounts == {1, 2, 4, 8, 16, 32, 64}

\* C28: building the store with shard count N succeeds exactly when N is a
\* power of two from 1 to 64, and then gives N empty shards, numbered from 0,
\* and the mask N - 1; for every other N there is an error and no store.
C28_ShardCount ==
    LET N == cfg.Storage.Shards
    IN /\ sd = "running" =>
            /\ N \in ValidShardCounts
            /\ DOMAIN store.shards = 0..(N - 1)
            /\ Cardinality(DOMAIN store.shards) = N
            /\ store.shardMask = N - 1
            /\ \A s \in DOMAIN store.shards :
                  store.shards[s] = [data |-> <<>>, expires |-> <<>>]
       /\ sd = "exit" =>
            /\ N \notin ValidShardCounts
            /\ store.shards = <<>>

\* the store was built with 64 shards
C28_Witness ==
    /\ sd = "running"
    /\ cfg.Storage.Shards = 64
    /\ Cardinality(DOMAIN store.shards) = 64

\* C29: whatever bytes a client sends, Decoder.Read returns a value or an
\* error (a length that is negative and not -1 is an error, and so is input
\* that ends inside a bulk body or before an announced element), so reading
\* a frame never ends the process.
C29_DecoderNeverCrashes == sd # "crashed"

RECURSIVE FramesOf(_, _)
\* the command frames in the bytes s from pos on: the non-empty arrays, up
\* to the first bytes that are no value
FramesOf(s, pos) ==
    LET r == DecoderRead(s, pos)
    IN IF r.kind # "ok" THEN <<>>
       ELSE IF r.val.Type = TypeArray /\ Len(r.val.Array) > 0
       THEN <<r.val.Array>> \o FramesOf(s, r.pos)
       ELSE FramesOf(s, r.pos)

\* what a key-value store kv answers to one command, and the store after it
Answer(kv, frame) ==
    LET name == ToUpper(frame[1].String)
        k == frame[2].String
    IN CASE name = bSET /\ Len(frame) = 3 ->
              [kv |-> Put(kv, k, frame[3].String), reply |-> MakeSimpleString(bOK)]
         [] name = bGET /\ Len(frame) = 2 ->
              [kv |-> kv,
               reply |-> IF k \in DOMAIN kv THEN MakeBulkString(kv[k]) ELSE MakeNilBulkString]
         [] name = bDEL /\ Len(frame) = 2 ->
              [kv |-> Remove(kv, k),
               reply |-> MakeInteger(IF k \in DOMAIN kv THEN 1 ELSE 0)]
         [] name = bPING /\ Len(frame) = 1 ->
              [kv |-> kv, reply |-> MakeSimpleString(bPONG)]
         [] OTHER ->
              [kv |-> kv, reply |-> MakeError(bWrongCommand \o name)]

RECURSIVE Answers(_, _, _)
\* the bytes of the replies to the first n of frames, run one after another
Answers(kv, frames, n) ==
    IF n = 0 \/ frames = <<>> THEN <<>>
    ELSE LET a == Answer(kv, Head(frames))
         IN EncoderWrite(a.reply) \o Answers(a.kv, Tail(frames), n - 1)

\* the commands that were replied to, where one client is connected: each
\* of those Execute was called with, but for the one still running
Replied(c) == IF conn[c].pc = "idle" THEN issued ELSE issued - 1

RepliesOf(c) == LoadFrom(sock[c].out, 1, <<>>).commands

\* C25: a client alone on a key that sends SET k v and then GET k reads v,
\* and one that sends SET k v, DEL k and then GET k reads a null bulk string,
\* for every key and value, empty ones and ones with CR and LF included.
C25_SetGetDel ==
    \A k \in EchoStrings : \A v \in EchoStrings :
      /\ (sock[1].in = SetGet(k, v) /\ issued = 2 /\ conn[1].pc = "idle") =>
            RepliesOf(1) = <<MakeSimpleString(bOK), MakeBulkString(v)>>
      /\ (sock[1].in = SetDelGet(k, v) /\ issued = 3 /\ conn[1].pc = "idle") =>
            RepliesOf(1) = <<MakeSimpleString(bOK), MakeInteger(1), MakeNilBulkString>>

\* a value of CR and LF was written over a key with a passed deadline and
\* read back
C25_Witness ==
    /\ sock[1].in = SetGet(<<>>, <<13, 10>>)
    /\ ~sock[1].open
    /\ Len(RepliesOf(1)) = 2
    /\ RepliesOf(1)[2].String = <<13, 10>>
    /\ <<>> \notin DOMAIN store.shards[0].expires

\* the reply of TTL (unit Second) or PTTL (unit Millisecond) fits the key
\* as the store of one client holds it: -2 for no key, -1 for a key with no
\* deadline, and else the time left at a moment t of the call, cut to units
FitsKey(r, unit) ==
    LET m == store.shards[ShardOf(kA)]
    IN /\ r.Type = TypeInteger
       /\ r.Integer >= -2
       /\ r.Integer = -2 <=> kA \notin DOMAIN m.data
       /\ r.Integer = -1 <=> (kA \in DOMAIN m.data /\ kA \notin DOMAIN m.expires)
       /\ r.Integer >= 0 =>
             /\ kA \in DOMAIN m.expires
             /\ \E t \in 0..now : /\ t <= m.expires[kA]
                                  /\ r.Integer = (m.expires[kA] - t) \div unit

\* C26: TTL and PTTL reply -2 exactly when the key is absent or its deadline
\* has passed, -1 exactly when the key is there with no deadline, and else
\* the time left cut to whole seconds (TTL) or milliseconds (PTTL), never
\* another negative number.
C26_TTLCodes ==
    \A c \in Conns :
      (conn[c].pc = "tail" /\ conn[c].name \in {bTTL, bPTTL} /\ Len(conn[c].args) = 1) =>
         FitsKey(conn[c].res, IF conn[c].name = bTTL THEN Second ELSE Millisecond)

\* C21: in every shard, whatever operations ran, each key with an entry in
\* the expiration table has an entry in the value table.
C21_DeadlineHasValue ==
    \A s \in Shards :
       DOMAIN store.shards[s].expires \subseteq DOMAIN store.shards[s].data

\* key holds a value of type in the shard it belongs to
Holds(key, type) ==
    /\ key \in DOMAIN store.shards[ShardOf(key)].data
    /\ store.shards[ShardOf(key)].data[key].Type = type

\* the step is the one in which Set runs for connection c
SetRuns(c) == conn[c].pc = "set_store" /\ conn'[c].pc # "set_store"

\* the step is a call of a hash operation
HashRuns == issued' = issued + 1 /\ conn' = conn

\* the step is the one in which Get reads the key for connection c
GetRuns(c) == conn[c].pc = "idle" /\ conn'[c].name = bGET /\ Len(conn'[c].args) = 1

\* C22: while a key is there its type does not change; Set on a key that
\* holds a Hash and HSet on a key that holds a String leave type, value and
\* deadline as they are; Get on a key that holds no String replies WRONGTYPE
\* and changes nothing in the store.
C22_TypeKept ==
    [][/\ \A s \in Shards : \A k \in DOMAIN store.shards[s].data :
            k \in DOMAIN store'.shards[s].data =>
               store'.shards[s].data[k].Type = store.shards[s].data[k].Type
       /\ \A c \in Conns :
            (SetRuns(c) /\ Holds(conn[c].key, TypeHash)) => store' = store
       /\ (HashRuns /\ Holds(kA, TypeString)) => store' = store
       /\ \A c \in Conns :
            (GetRuns(c) /\ Holds(conn'[c].args[1].String, TypeHash)) =>
               /\ conn'[c].pc = "tail"
               /\ conn'[c].res = MakeError(bWrongType)
               /\ store' = store]_vars

\* Set has run on a key that holds a hash, and the hash is still there
C22_Witness ==
    /\ conn[1].pc = "tail"
    /\ conn[1].name = bSET
    /\ getHash(store.shards[ShardOf(kA)], kA)
    /\ conn[1].res = MakeNilBulkString

\* C30: every shard operation releases the lock of the shard on every path
\* on which it returns: a lock is held only by a connection whose storage
\* call is still running, whatever calls raced with it.
C30_LockReleased ==
    \A s \in Shards :
       mu[s] = 0 \/ conn[mu[s]].pc \notin {"idle", "tail", "reply"}

\* C27: with N shards a key is kept only in the shard whose index is
\* fnv1a32(key) AND (N - 1), also after a Restore of a snapshot taken with
\* another shard count, and a step of a command takes the lock of one shard
\* only: it changes at most one shard.
KeysOf(s) == DOMAIN store.shards[s].data \cup DOMAIN store.shards[s].expires

KeysPlaced ==
    \A s \in Shards : \A k \in KeysOf(s) :
       s = BitAnd(Fnv1aLow(FnvOffsetLow, k), Cardinality(Shards) - 1)

Loading == rdb'.load.kind # rdb.load.kind

C27_OneShard ==
    [][/\ KeysPlaced'
       /\ ~Loading =>
            /\ DOMAIN store'.shards = Shards
            /\ Cardinality({s \in Shards : store'.shards[s] # store.shards[s]}) <= 1]_vars

C27_Witness ==
    /\ rdb.load.kind = "ok"
    /\ Cardinality(Shards) = 4
    /\ \E s1, s2 \in Shards : s1 # s2 /\ KeysOf(s1) # {} /\ KeysOf(s2) # {}

\* C23: two commands on one key sent by two connections are linearizable:
\* their replies and the key's entry in the store afterwards are those of the
\* two commands run one after the other, each as a whole, in one of the two
\* orders; of two SET k v NX on an absent key exactly one is applied, and
\* the stored value is its value.
Loaded == RDBLoad(Fresh1, FileExists, FileBytes, 0).st.shards[0]

\* the command of connection c run alone on the shard m at time t
Alone(c, m, t) ==
    LET name == conn[c].name
        args == conn[c].args
        key == args[1].String
        r == GetRead(m, key)
        p == setOptions(args, 3, SetOptions(0, FALSE, FALSE, FALSE), FALSE, t)
        put == MapSet(m, key, args[2].String, p.options, t)
    IN CASE name = bGET ->
              IF ~r.ok THEN [res |-> MakeNilBulkString, m |-> m]
              ELSE IF r.hasExp /\ Expired(t, r.exp)
              THEN [res |-> MakeNilBulkString, m |-> DropKey(m, key)]
              ELSE [res |-> MakeBulkString(r.entity.Value), m |-> m]
         [] name = bPTTL ->
              IF ~r.ok THEN [res |-> MakeInteger(ExpNotFound), m |-> m]
              ELSE IF ~r.hasExp THEN [res |-> MakeInteger(ExpNoTimeout), m |-> m]
              ELSE IF Expired(t, r.exp)
              THEN [res |-> MakeInteger(ExpNotFound), m |-> DropKey(m, key)]
              ELSE [res |-> MakeInteger((r.exp - t) \div Millisecond), m |-> m]
         [] name = bPERSIST ->
              IF r.ok /\ r.hasExp
              THEN [res |-> MakeInteger(1),
                    m |-> [data |-> m.data, expires |-> Remove(m.expires, key)]]
              ELSE [res |-> MakeInteger(0), m |-> m]
         [] name = bDEL ->
              [res |-> MakeInteger(IF r.ok THEN 1 ELSE 0), m |-> DropKey(m, key)]
         [] OTHER ->
              [res |-> IF put.ok THEN MakeSimpleString(bOK) ELSE MakeNilBulkString,
               m |-> put.m]

Answered(c) == conn[c].pc \in {"tail", "reply"}

\* c1 and then c2, at two times of the run, give the replies and the store
InOrder(c1, c2) ==
    \E t1, t2 \in 0..now :
       /\ t1 <= t2
       /\ Alone(c1, Loaded, t1).res = conn[c1].res
       /\ Alone(c2, Alone(c1, Loaded, t1).m, t2).res = conn[c2].res
       /\ Alone(c2, Alone(c1, Loaded, t1).m, t2).m = store.shards[0]

IsSetNX(c) == conn[c].name = bSET /\ Len(conn[c].args) = 3 /\ conn[c].args[3].String = bNX

C23_Linearizable ==
    (issued = 2 /\ Answered(1) /\ Answered(2)) =>
       /\ InOrder(1, 2) \/ InOrder(2, 1)
       /\ (IsSetNX(1) /\ IsSetNX(2) /\ kA \notin DOMAIN Loaded.data) =>
            \E c \in Conns :
               /\ conn[c].res = MakeSimpleString(bOK)
               /\ conn[3 - c].res = MakeNilBulkString
               /\ store.shards[0].data[kA].Value = conn[c].args[2].String

C23_Witness ==
    /\ issued = 2 /\ Answered(1) /\ Answered(2)
    /\ IsSetNX(1) /\ IsSetNX(2) /\ conn[1].args[2].String # conn[2].args[2].String
    /\ kA \notin DOMAIN Loaded.data
    /\ conn[2].res = MakeSimpleString(bOK)

\* C31: a Get or an Expiry that saw the deadline passed under the shared lock
\* reports what it finds under the exclusive lock: when another connection
\* has written the key in between, the entry stays and the reply is its
\* value, its remaining time or "no deadline"; when the key was deleted, the
\* reply is "not present" and the store stays as it is.
Upgraded(c, pc) == conn[c].pc = pc /\ conn'[c].pc = "tail"

FreshAt(c) ==
    LET m == store.shards[ShardOf(conn[c].key)]
        key == conn[c].key
    IN /\ key \in DOMAIN m.data
       /\ key \in DOMAIN m.expires => m.expires[key] >= now

GoneAt(c) == conn[c].key \notin DOMAIN store.shards[ShardOf(conn[c].key)].data

ReadsAfresh(c) ==
    LET m == store.shards[ShardOf(conn[c].key)]
        key == conn[c].key
    IN /\ (Upgraded(c, "get_lock") /\ FreshAt(c)) =>
             (store' = store /\ conn'[c].res = MakeBulkString(m.data[key].Value))
       /\ (Upgraded(c, "get_lock") /\ GoneAt(c)) =>
             (store' = store /\ conn'[c].res = MakeNilBulkString)
       /\ (Upgraded(c, "exp_lock") /\ FreshAt(c)) =>
             /\ store' = store
             /\ conn'[c].res =
                  IF key \notin DOMAIN m.expires THEN MakeInteger(ExpNoTimeout)
                  ELSE ExpiryReply(conn[c].name, m.expires[key] - now, ExpActive)
       /\ (Upgraded(c, "exp_lock") /\ GoneAt(c)) =>
             (store' = store /\ conn'[c].res = MakeInteger(ExpNotFound))

C31_UpgradeRechecks == [][\A c \in Conns : ReadsAfresh(c)]_vars

C31_Witness ==
    \E c \in Conns :
       /\ conn[c].pc = "exp_lock"
       /\ FreshAt(c)
       /\ kA \in DOMAIN store.shards[0].expires
       /\ conn[3 - c].pc \in {"tail", "reply"}
       /\ conn[3 - c].name = bSET

\* C32: a PERSIST that finds the key with a deadline that has passed (the key
\* not yet reaped nor deleted by a read) replies 0 and leaves the deadline,
\* so the key stays absent for every later GET.
PassedAt(c) ==
    LET m == store.shards[ShardOf(conn[c].key)]
    IN /\ conn[c].key \in DOMAIN m.data
       /\ conn[c].key \in DOMAIN m.expires
       /\ Expired(now, m.expires[conn[c].key])

C32_PersistKeepsPassedDeadline ==
    [][\A c \in Conns :
          (Upgraded(c, "persist_lock") /\ PassedAt(c)) =>
             (conn'[c].res = MakeInteger(0) /\ store' = store)]_vars

\* C33: after a graceful shutdown no acknowledged write is missing from the
\* log: once AOF.Close has closed the file, the payload of a command that
\* was answered while or after Shutdown ran is in the file, behind those
\* enqueued before it; and no Execute waits to enqueue on a full
\* channel that the writer, having stopped, will never read.
Unanswered == {c \in Conns : conn[c].pc = "reply" /\ conn[c].enq # <<>>}

BlockedOnChannel(c) ==
    /\ conn[c].pc = "tail"
    /\ conn[c].res.Type # TypeError /\ isWriteCommand(conn[c].name)
    /\ Len(aof.commandsChan) >= ChanCap

C33_AckedWritesLogged ==
    cfg.AOF.Enabled =>
       /\ (sd = "done" /\ aof.sent - Cardinality(Unanswered) > aof.sentAtClose) =>
             aof.sent - Cardinality(Unanswered) <= Len(aof.file)
       /\ aof.listen = "exited" => \A c \in Conns : ~BlockedOnChannel(c)

\* C34: a sweep of a shard with limit samples_per_check >= 0 inspects at
\* most that many entries of the expiration table and removes, from both
\* tables, exactly the inspected entries whose deadline has passed; a key
\* with no deadline or a deadline to come stays; the ratio it reports is
\* removed over inspected, with nothing removed when nothing was inspected.
SweptNow(s) == s \in gc.pending /\ s \notin gc'.pending

SweepWithinLimit(s) ==
    LET before == store.shards[s]
        after == store'.shards[s]
        removed == DOMAIN before.data \ DOMAIN after.data
    IN /\ gc'.ratios[s].checked <= cfg.GC.SamplesPerCheck
       /\ gc'.ratios[s].expired = Cardinality(removed)
       /\ gc'.ratios[s].expired <= gc'.ratios[s].checked
       /\ DOMAIN before.expires \ DOMAIN after.expires = removed
       /\ \A k \in removed : k \in DOMAIN before.expires /\ before.expires[k] < now
       /\ \A k \in DOMAIN after.data : after.data[k] = before.data[k]
       /\ \A k \in DOMAIN after.expires : after.expires[k] = before.expires[k]

C34_SweepWithinLimit == [][\A s \in Shards : SweptNow(s) => SweepWithinLimit(s)]_vars

\* C35: an entry whose deadline equals the clock is expired: a Get or an
\* Expiry that reads it goes on to the exclusive section and there removes
\* it and reports "not present", a SET NX finds the key absent and is
\* applied, and a sweep that inspects every deadline of the shard leaves no
\* entry whose deadline is the clock.
DueAt(c) ==
    LET m == store.shards[ShardOf(conn[c].key)]
    IN /\ conn[c].key \in DOMAIN m.data
       /\ conn[c].key \in DOMAIN m.expires
       /\ m.expires[conn[c].key] = now

KeyGone(c) ==
    conn[c].key \notin DOMAIN store'.shards[ShardOf(conn[c].key)].data

DueIsExpired(c) ==
    /\ (conn[c].pc \in {"get_check", "exp_check"} /\ conn[c].exp = now /\ conn'[c] # conn[c]) =>
          conn'[c].pc \in {"get_lock", "exp_lock"}
    /\ (Upgraded(c, "get_lock") /\ DueAt(c)) =>
          (conn'[c].res = MakeNilBulkString /\ KeyGone(c))
    /\ (Upgraded(c, "exp_lock") /\ DueAt(c)) =>
          (conn'[c].res = MakeInteger(ExpNotFound) /\ KeyGone(c))
    /\ (Upgraded(c, "set_store") /\ DueAt(c) /\ conn[c].options.NX) =>
          conn'[c].res = MakeSimpleString(bOK)

C35_DeadlineAtNowExpired ==
    [][/\ \A c \in Conns : DueIsExpired(c)
       /\ \A s \in Shards :
            (SweptNow(s) /\ gc'.ratios[s].checked = Cardinality(DOMAIN store.shards[s].expires)) =>
               \A k \in DOMAIN store'.shards[s].expires : store'.shards[s].expires[k] # now]_vars

\* C36: a SET that carries EX, PX, EXAT or PXAT with an integer the parser
\* accepts, and that is applied, leaves the key with a deadline.
HasSource(args) ==
    \E i \in 3..Len(args) : ToUpper(args[i].String) \in {bEX, bPX, bEXAT, bPXAT}

C36_SourceGivesDeadline ==
    [][\A c \in Conns :
         (/\ conn'[c].pc = "tail" /\ conn[c].pc \in {"idle", "set_store"}
          /\ conn'[c].name = bSET
          /\ conn'[c].res = MakeSimpleString(bOK)
          /\ store' # store
          /\ HasSource(conn'[c].args))
         => conn'[c].args[1].String \in
               DOMAIN store'.shards[ShardOf(conn'[c].args[1].String)].expires]_vars

\* a snapshot taken in a goroutine of its own while the client that asked for
\* it goes on writing: the store has two shards, kA and kC are kept by the
\* first and kB by the second, and the client pipelines up to MaxCmds of
\* these commands
SnapCommands ==
    {SerializeCommand(bBGSAVE, <<>>),
     SerializeCommand(bSET, <<bulk(kA), bulk(vX), bulk(bPX), bulk(d1)>>),
     SerializeCommand(bSET, <<bulk(kC), bulk(vX)>>),
     SerializeCommand(bSET, <<bulk(kB), bulk(vY)>>),
     SerializeCommand(bDEL, <<bulk(kA)>>)}

RECURSIVE SnapStreams(_)
SnapStreams(n) ==
    IF n = 0 THEN {<<>>}
    ELSE LET shorter == SnapStreams(n - 1)
         IN shorter \cup {s \o p : s \in shorter, p \in SnapCommands}

InitSnap ==
    /\ store = [shards |-> NewShardedMapStorage(2).shards,
                shardMask |-> NewShardedMapStorage(2).shardMask]
    /\ now = 0
    /\ cfg = Config(2, FALSE, 1, Threshold(1, 4), FALSE, "always", TRUE, "")
    /\ mu = [s \in DOMAIN store.shards |-> 0]
    /\ conn = [c \in Conns |-> IdleConn]
    /\ \E bytes \in SnapStreams(MaxCmds) :
          sock = [c \in Conns |-> IF c = 1 THEN NewSock(bytes) ELSE NoSock]
    /\ menu = [c \in Conns |-> {}]
    /\ gc = [pc |-> "off", pending |-> {}, fired |-> 0,
             ratios |-> [s \in DOMAIN store.shards |-> [expired |-> 0, checked |-> 0]],
             stats |-> [num |-> 0, den |-> 1]]
    /\ tickC = 0
    /\ stopGC = FALSE
    /\ issued = 0
    /\ aof = NoAOF
    /\ rdb = NewRDB("")
    /\ sd = "running"

NextSnap ==
    \/ \E c \in Conns : ReadCommand(c)
    \/ \E c \in Conns : \E frame \in menu[c] : bgsave(c, frame)
    \/ \E c \in Conns : \E frame \in menu[c] : set(c, frame)
    \/ \E c \in Conns : \E frame \in menu[c] : del(c, frame)
    \/ \E c \in Conns : SetStore(c)
    \/ \E c \in Conns : DelStep(c)
    \/ \E c \in Conns : ExecuteTail(c)
    \/ \E c \in Conns : Reply(c)
    \/ \E t \in Savers : SaveCreate(t)
    \/ \E t \in Savers : SaveSnapshot(t)
    \/ \E t \in Savers : SaveFlush(t)
    \/ \E t \in Savers : SaveSync(t)
    \/ \E t \in Savers : SaveRename(t)

SpecSnap == InitSnap /\ [][NextSnap]_vars

\* the save t writes records in this step
WritesSection(t) ==
    /\ rdb.task[t].pc = "snapshot"
    /\ rdb'.task[t] # rdb.task[t]

\* what the save t writes in this step is every key of the shard it has come
\* to, each with the value and the deadline the shard holds for it, and the
\* store is the same before and after
SectionAtOneInstant(t) ==
    LET s == rdb.task[t].shard
        m == store.shards[s]
    IN /\ store' = store
       /\ rdb'.task[t].shard = s + 1
       /\ \E order \in Orders(DOMAIN m.data) :
             rdb'.task[t].writer = rdb.task[t].writer \o MapSnapshot(m, order, now)

\* C37: while a snapshot runs beside the writes of a client, the records
\* written for one shard are that shard's keys, values and deadlines at one
\* instant: the whole section is written in one step of the shard's shared
\* lock, during which the store does not change, and the sections of two
\* shards are separate steps between which writes take effect
C37_ShardSectionAtOneInstant ==
    [][\A t \in Savers : WritesSection(t) => SectionAtOneInstant(t)]_vars

\* the client sent BGSAVE, SET a, SET b in this order, so that the store held
\* first nothing, then a, then a and b; a finished snapshot holds the record of
\* b and no record of a
C37_Witness ==
    /\ sock[1].in = SerializeCommand(bBGSAVE, <<>>)
                       \o SerializeCommand(bSET, <<bulk(kA), bulk(vX), bulk(bPX), bulk(d1)>>)
                       \o SerializeCommand(bSET, <<bulk(kB), bulk(vY)>>)
    /\ kA \in DOMAIN store.shards[0].data
    /\ kB \in DOMAIN store.shards[1].data
    /\ bMagic \o MapSnapshot(store.shards[1], <<kB>>, now) \in rdb.outputs

\* the auto-save loop beside the reaper, which the configuration enables or
\* not, while the clients write and the server is shut down
AutoMenu == {Frame(bSET, <<kA, vX>>)}

InitAuto ==
    /\ \E gcOn \in BOOLEAN :
          InitEngine(Config(1, gcOn, 1, Threshold(1, 4), FALSE, "always", TRUE, "1s"))
    /\ menu = [c \in Conns |-> IF c = 1 THEN AutoMenu ELSE {}]

NextAuto ==
    \/ \E c \in Conns : \E frame \in menu[c] : set(c, frame)
    \/ \E c \in Conns : SetStore(c)
    \/ \E c \in Conns : ExecuteTail(c)
    \/ \E c \in Conns : Reply(c)
    \/ AutoTickerFire
    \/ AutoSaveTick
    \/ AutoSaveStop
    \/ \E t \in Savers : SaveCreate(t)
    \/ \E t \in Savers : SaveSnapshot(t)
    \/ \E t \in Savers : SaveFlush(t)
    \/ \E t \in Savers : SaveSync(t)
    \/ \E t \in Savers : SaveRename(t)
    \/ TickerFire
    \/ GCSweepStart
    \/ \E s \in Shards : ShardSweep(s)
    \/ GCSweepDone
    \/ GCStop
    \/ Shutdown

SpecAuto == InitAuto /\ [][NextAuto]_vars

\* a call of RDB.Save begins in this step
SaveStarts == \E t \in Savers : rdb.task[t].pc = "free" /\ rdb'.task[t].pc # "free"

\* C38: once Engine.Shutdown has returned, the auto-save loop starts no
\* further save, whether the reaper is enabled or not
C38_NoSaveAfterShutdown == [][sd = "done" => ~SaveStarts]_vars

\* the fields the hash at kA does not contain, when kA holds a hash
AbsentFields ==
    IF getHash(store.shards[ShardOf(kA)], kA)
    THEN {fF, fG} \ DOMAIN store.shards[ShardOf(kA)].data[kA].Value
    ELSE {}

\* C39: HGet and HExists on a field the hash at the key does not contain
\* return not-found and 0 and leave the shard as it is: the key and its other
\* fields stay
C39_AbsentFieldReadKeepsHash ==
    \A field \in AbsentFields :
       LET m == store.shards[ShardOf(kA)]
       IN /\ ~MapHGet(m, kA, field, now).ok
          /\ MapHGet(m, kA, field, now).m = m
          /\ MapHExists(m, kA, field, now).ret = 0
          /\ MapHExists(m, kA, field, now).m = m

\* clients that set a key with a timestamp that has passed, under EXAT, under
\* PXAT and under NX, and read it and ask for its remaining time while the
\* clock advances; no other command gives the key a deadline
PastMenu ==
    {Frame(bSET, <<kA, vX, bEXAT, d0>>), Frame(bSET, <<kA, vY, bPXAT, d0>>),
     Frame(bSET, <<kA, vY, bNX, bPXAT, d0>>),
     Frame(bGET, <<kA>>), Frame(bTTL, <<kA>>), Frame(bPTTL, <<kA>>)}

InitPast ==
    /\ InitEngine(Config(1, FALSE, 1, Threshold(1, 4), FALSE, "everysec", FALSE, ""))
    /\ menu = [c \in Conns |-> PastMenu]

NextPast ==
    \/ \E c \in Conns : \E cmd \in menu[c] : get(c, cmd)
    \/ \E c \in Conns : \E cmd \in menu[c] : ttl(c, cmd)
    \/ \E c \in Conns : \E cmd \in menu[c] : set(c, cmd)
    \/ \E c \in Conns : GetCheck(c)
    \/ \E c \in Conns : GetLock(c)
    \/ \E c \in Conns : ExpiryCheck(c)
    \/ \E c \in Conns : ExpiryLock(c)
    \/ \E c \in Conns : SetStore(c)
    \/ \E c \in Conns : ExecuteTail(c)
    \/ \E c \in Conns : Reply(c)
    \/ Tick

SpecPast == InitPast /\ [][NextPast]_vars

\* the SET of connection c took the branch of a timestamp that has passed and
\* calls Set now, on a key no NX or XX condition holds back
PastSetApplies(c) ==
    LET m == store.shards[ShardOf(conn[c].key)]
        live == /\ conn[c].key \in DOMAIN m.data
                /\ ~(conn[c].key \in DOMAIN m.expires /\ now > m.expires[conn[c].key])
    IN /\ Upgraded(c, "set_store")
       /\ conn[c].past
       /\ ~(conn[c].options.NX /\ live)
       /\ ~(conn[c].options.XX /\ ~live)

\* the key of c holds the value of the SET and a deadline after now
WrittenWithDeadline(c) ==
    LET m == store'.shards[ShardOf(conn[c].key)]
    IN /\ conn'[c].res = MakeSimpleString(bOK)
       /\ conn[c].key \in DOMAIN m.data
       /\ m.data[conn[c].key].Value = conn[c].value
       /\ conn[c].key \in DOMAIN m.expires
       /\ m.expires[conn[c].key] > now

\* the read of c reports the key absent
SaysAbsent(c) ==
    conn'[c].res = (IF conn[c].name = bGET THEN MakeNilBulkString
                    ELSE MakeInteger(ExpNotFound))

\* the read of c compares the clock with the deadline it read under the shared
\* lock, which a SET put one unit after its own clock reading
ReadsLater(c) ==
    /\ conn[c].pc \in {"get_check", "exp_check"}
    /\ conn'[c].pc = "tail"
    /\ now > conn[c].exp - 1

\* the read of c, in its exclusive section, finds the key with a deadline that
\* a SET put one unit after its own clock reading
RereadsLater(c) ==
    LET m == store.shards[ShardOf(conn[c].key)]
    IN /\ conn[c].pc \in {"get_lock", "exp_lock"}
       /\ conn'[c].pc = "tail"
       /\ conn[c].key \in DOMAIN m.data
       /\ conn[c].key \in DOMAIN m.expires
       /\ now > m.expires[conn[c].key] - 1

\* C40: a SET with an EXAT or PXAT timestamp that has passed, which no NX or
\* XX condition holds back, writes the key with a deadline after now and
\* replies OK, and every GET, TTL and PTTL that reads the clock strictly
\* after that SET did reports the key absent
C40_PastTimestampExpiresAtOnce ==
    [][\A c \in Conns :
         /\ PastSetApplies(c) => WrittenWithDeadline(c)
         /\ (ReadsLater(c) \/ RereadsLater(c)) => SaysAbsent(c)]_vars
====
